---- MODULE Spec2Model ----
(***************************************************************************)
(* Process orchestration of sling/__init__.py: the Sling class spawns the  *)
(* sling binary with subprocess.Popen, wires its stdin/stdout/stderr to    *)
(* OS pipes of bounded capacity, writes the input to the child's stdin in  *)
(* the calling thread and reads the child's stdout/stderr.                 *)
(*                                                                         *)
(* One behaviour = one Sling instance, one call of run(), stream() or      *)
(* stream_arrow() on it, and the child process that call spawns.  Data is  *)
(* counted in units: one unit is one flushed write of the host (a CSV      *)
(* line, an Arrow message) or one write of the child.                      *)
(*                                                                         *)
(* Further specifications over their own variables, the others held idle:  *)
(*   SpecRun        run() of Replication / Pipeline / Task and _run()      *)
(*   SpecInfer      _infer_arrow_type() on the sample values of one field  *)
(*   SpecEnc        the columnar and the row encoder of the input          *)
(*   SpecDec        the row decoder of the child's output                  *)
(*   SpecRoundTrip  the row encoder followed by the row decoder            *)
(***************************************************************************)
EXTENDS Integers, Sequences, FiniteSets, TLC

\* ---- bounds of the model ------------------------------------------------
PipeCap  == 1      \* units an OS pipe buffers before a write blocks
MaxInput == 2      \* most units the encoder writes for self.input
MaxOut   == 3      \* most units the child writes to its stdout
MaxErr   == 2      \* most units the child writes to its stderr
MaxCode  == 1      \* largest exit status of the child

None == "None"

\* self.input is None (no input data); otherwise input counts units
NoInput == 0 - 1

VARIABLES
  HAS_ARROW,     \* module global: pyarrow could be imported
  tgt_conn,      \* self.tgt_conn: None, a file:// URL or another connection
  tgt_object,    \* self.tgt_object is truthy
  input,         \* self.input: None, or the units its encoding takes
  self_stdout,   \* self.stdout
  method,        \* the entry point the caller called
  hpc,           \* where the host (calling thread) is
  cmd,           \* the argument vector _build_command() returned, <<>> before
  closing,       \* the generator of stream() is being closed (GeneratorExit)
  pending,       \* exception in flight while a finally block runs
  written,       \* units of input the host has written to the child's stdin
  captured,      \* units of stderr text communicate() has read
  yielded,       \* records stream() has yielded to the caller
  delivered,     \* batches the reader returned by stream_arrow() has delivered
  outcome,       \* "none" while the call runs, then "returned" or "raised"
  error,         \* the SlingError raised: [kind, code, stderr]
  process,       \* the child: [spawned, alive, returncode, op, outLeft,
                 \*   errLeft, outWritten, errWritten, eof]
  stdin_open,    \* the host still holds the write end of the child's stdin
  pipe_stdin,    \* units buffered in the stdin pipe
  pipe_stdout,   \* units buffered in the stdout pipe
  pipe_stderr    \* units buffered in the stderr pipe

\* ---- state of Replication / Pipeline / Task and of _run() ----------------
VARIABLES
  cls,           \* the class of the object: Replication, Pipeline or Task
  file_path,     \* self.file_path is set: the caller's own config file is used
  self_env,      \* self.env, a mapping of names to values
  os_environ,    \* os.environ of the host process
  caller_env,    \* `env or self.env` as run() found it on entry
  child_env,     \* the env argument of subprocess.Popen (NoEnv: none spawned)
  temp_file,     \* self.temp_file: NoFile (None) or the path it names
  files,         \* the temp config files that exist on disk
  config_env,    \* "env" section of the config file written last
  lpc,           \* where the launcher is: "idle" or "exec" (child running)
  run_outcome,   \* how the last run() ended: "none", "returned", "raised"
  runs           \* run() calls made on the object

launcher == <<cls, file_path, self_env, os_environ, caller_env, child_env,
              temp_file, files, config_env, lpc, run_outcome, runs>>

\* ---- state of the type inference of one field ---------------------------
VARIABLES
  sample_values, \* the non-null values of one field in the sample, by class
  inferred       \* the Arrow type _infer_arrow_type() returned, None before

inference == <<sample_values, inferred>>

config == <<HAS_ARROW, tgt_conn, tgt_object, input>>
host   == <<self_stdout, method, hpc, cmd, closing, pending, written, captured,
            yielded, delivered, outcome, error>>
pipes  == <<stdin_open, pipe_stdin, pipe_stdout, pipe_stderr>>
sling  == <<config, host, process, pipes>>

\* ---- state of the input encoders ----------------------------------------
VARIABLES
  select,        \* self.select as a list of field names, <<>> when not set
  input_data,    \* the records of self.input: each a dict in insertion order
  encoder,       \* the encoder that runs: "none", "arrow" or "csv"
  epc,           \* where the encoder is
  consumed,      \* records of input_data the encoder's loop has gone through
  schema,        \* the schema variable of _convert_to_arrow_table, None before
  inferences,    \* calls of _infer_arrow_schema() made
  all_batches,   \* the batches _convert_to_arrow_table has built
  headers,       \* the headers variable of _write_input_data_csv
  headers_written, \* its headers_written flag
  sink,          \* what has been written to the child's stdin, in order
  flushed,       \* the items of sink that stdin.flush() has pushed out
  enc_error      \* the exception that left the encoder, None if none did

encoding == <<select, input_data, encoder, epc, consumed, schema, inferences,
              all_batches, headers, headers_written, sink, flushed, enc_error>>

\* ---- state of the row decoder -------------------------------------------
VARIABLES
  child_output,  \* all the bytes the child writes to its stdout
  stdout_bytes,  \* the bytes of it that the decoder has not read yet
  dpc,           \* where the decoder is: "idle", "header", "lines", "done"
  dec_headers,   \* the headers variable of _read_output_stream_csv
  records_out,   \* the records the decoder has yielded, in order
  dec_outcome    \* how the generator ended: "none", "exhausted", "stopped"

decoding == <<child_output, stdout_bytes, dpc, dec_headers, records_out,
              dec_outcome>>

\* ---- state of the columnar decoder --------------------------------------
VARIABLES
  src_kind,      \* what stdout is: a "file", a "pipe", or an object without seek
  use_arrow,     \* HAS_ARROW and self._should_use_arrow()
  apc,           \* where the columnar decoder is
  reader_input,  \* [bytes |-> what pa.ipc.open_stream() is given], NoBytes before
  batches_read,  \* batches the reader has delivered
  dec_error      \* the exception that left the decoder, None if none did

arrow_decoding == <<src_kind, use_arrow, apc, reader_input, batches_read,
                    dec_error>>

\* ---- state of the configuration of a Sling instance over its calls -------
VARIABLES
  toggle,          \* SLING_USE_ARROW of the host is not "false"
  src_options,     \* self.src_options
  tgt_options,     \* self.tgt_options
  cpc,             \* "idle" between calls, "reading" while output is decoded
  entry,           \* the method called last
  original_stdout, \* the local of stream() and stream_arrow()
  cmd_before,      \* what _build_command() gave when the call began
  told,            \* the target format of the command line and SLING_STREAM_FORMAT
  declared,        \* the source format of --src-options of the command line
  wire,            \* the encoder that wrote the input to stdin
  decoder,         \* the decoder applied to the child's stdout
  exit,            \* how the last call ended
  calls            \* calls made on the instance

configuration == <<toggle, src_options, tgt_options, cpc, entry,
                   original_stdout, cmd_before, told, declared, wire, decoder,
                   exit, calls>>

\* ---- state of the serialization of one hook ------------------------------
VARIABLES
  hook_type,     \* what get_type() of the hook gives
  hook_attrs,    \* self.__dict__ of the hook
  hkpc,          \* "new" before to_dict(), "done" after
  hook_result,   \* the mapping to_dict() returned
  hook_error     \* the exception that left to_dict(), None if none did

hooks == <<hook_type, hook_attrs, hkpc, hook_result, hook_error>>

\* ---- state of the Replication objects of one program ---------------------
VARIABLES
  dicts,         \* the dict objects: dicts[0] is the default of `streams={}`
  replications   \* the instances made: the dict self.streams refers to, and
                 \* the stream names the caller gave the instance

stream_maps == <<dicts, replications>>

\* the variables the actions of the Sling class leave alone
outside_sling == <<launcher, inference, encoding, decoding, arrow_decoding, configuration, hooks, stream_maps>>

\* the variables run() and _run() of the other classes leave alone
outside_launcher == <<sling, inference, encoding, decoding, arrow_decoding, configuration, hooks, stream_maps>>

\* the variables the type inference leaves alone
outside_inference == <<sling, launcher, encoding, decoding, arrow_decoding, configuration, hooks, stream_maps>>

\* the variables the encoders leave alone
outside_encoding == <<sling, launcher, inference, decoding, arrow_decoding, configuration, hooks, stream_maps>>

\* the variables the row decoder leaves alone
outside_decoding == <<sling, launcher, inference, encoding, arrow_decoding, configuration, hooks, stream_maps>>

\* the variables the actions on arrow_decoding leave alone
outside_arrow_decoding == <<sling, launcher, inference, encoding, decoding, configuration, hooks, stream_maps>>

\* the variables the actions on configuration leave alone
outside_configuration == <<sling, launcher, inference, encoding, decoding, arrow_decoding, hooks, stream_maps>>

\* the variables the actions on hooks leave alone
outside_hooks == <<sling, launcher, inference, encoding, decoding, arrow_decoding, configuration, stream_maps>>

\* the variables the actions on stream_maps leave alone
outside_stream_maps == <<sling, launcher, inference, encoding, decoding, arrow_decoding, configuration, hooks>>

vars   == <<sling, launcher, inference, encoding, decoding, arrow_decoding, configuration, hooks, stream_maps>>

\* ---- errors -------------------------------------------------------------
\* Every exception that leaves run(), stream() and stream_arrow() is a
\* SlingError; kind names the message, code and stderr what the message
\* carries of the child's exit status and diagnostic text (-1: nothing).
NoError == [kind |-> "none", code |-> -1, stderr |-> -1]

SlingError(kind) == [kind |-> kind, code |-> -1, stderr |-> -1]

\* f"Sling command failed with return code: {returncode}\n{stderr_text}"
CommandFailed(returncode, stderr_text) ==
  [kind |-> "command_failed", code |-> returncode, stderr |-> stderr_text]

NoProcess ==
  [spawned |-> FALSE, alive |-> FALSE, returncode |-> -1, op |-> "idle",
   outLeft |-> 0, errLeft |-> 0, outWritten |-> 0, errWritten |-> 0,
   eof |-> FALSE]

\* ---- names, environments and files of the launcher -----------------------
MaxRuns == 2       \* most run() calls on one object

Names == {"A", "B", "SLING_PACKAGE"}

\* the mappings from some of the names to the value v
Envs(v) == UNION {[D -> {v}] : D \in SUBSET Names}

NoEnv == [none |-> TRUE]

NoFile == 0

\* No Replication, Pipeline or Task object exists.
Launcher_Idle ==
  /\ cls = None
  /\ file_path = FALSE
  /\ self_env = <<>>
  /\ os_environ = <<>>
  /\ caller_env = <<>>
  /\ child_env = NoEnv
  /\ temp_file = NoFile
  /\ files = {}
  /\ config_env = <<>>
  /\ lpc = "idle"
  /\ run_outcome = "none"
  /\ runs = 0

\* No field is being inferred.
Inference_Idle ==
  /\ sample_values = <<>>
  /\ inferred = None

\* No encoder runs and there is no input.
Encoding_Idle ==
  /\ select = <<>>
  /\ input_data = <<>>
  /\ encoder = "none"
  /\ epc = "idle"
  /\ consumed = 0
  /\ schema = [none |-> TRUE]
  /\ inferences = 0
  /\ all_batches = <<>>
  /\ headers = <<>>
  /\ headers_written = FALSE
  /\ sink = <<>>
  /\ flushed = 0
  /\ enc_error = None

\* No decoder runs and the child has written nothing.
Decoding_Idle ==
  /\ child_output = <<>>
  /\ stdout_bytes = <<>>
  /\ dpc = "idle"
  /\ dec_headers = <<>>
  /\ records_out = <<>>
  /\ dec_outcome = "none"

NoBytes == [none |-> TRUE]

\* No columnar decoder runs.
ArrowDec_Idle ==
  /\ src_kind = "pipe"
  /\ use_arrow = FALSE
  /\ apc = "idle"
  /\ reader_input = NoBytes
  /\ batches_read = 0
  /\ dec_error = None

\* self.src_options / self.tgt_options: None, a dict or an options object,
\* with the format it holds
NoOptions == [kind |-> "None", format |-> "None"]

NoCommand == [src |-> "absent", tgt |-> "absent", stdout |-> FALSE]

NoTold == [cmd_tgt |-> "absent", env |-> FALSE]

\* No call has been made and nothing is configured.
Configuration_Idle ==
  /\ toggle = TRUE
  /\ src_options = NoOptions
  /\ tgt_options = NoOptions
  /\ cpc = "idle"
  /\ entry = None
  /\ original_stdout = FALSE
  /\ cmd_before = NoCommand
  /\ told = NoTold
  /\ declared = "absent"
  /\ wire = "none"
  /\ decoder = "none"
  /\ exit = "none"
  /\ calls = 0

\* the mapping without a key
EmptyDict == [k \in {} |-> None]

\* No hook is being serialized.
Hooks_Idle ==
  /\ hook_type = None
  /\ hook_attrs = EmptyDict
  /\ hkpc = "idle"
  /\ hook_result = EmptyDict
  /\ hook_error = None

\* The default dict of the streams parameter, made once when the class is
\* defined, and no instance yet.
StreamMaps_Idle ==
  /\ dicts = <<{}>>
  /\ replications = <<>>

\* ---- Sling.__init__ -----------------------------------------------------
Init ==
  /\ HAS_ARROW \in BOOLEAN
  /\ tgt_conn \in {None, "file://", "conn"}
  /\ tgt_object \in BOOLEAN
  /\ input \in {NoInput} \cup (0..MaxInput)
  /\ self_stdout = FALSE
  /\ method = None
  /\ hpc = "new"
  /\ cmd = <<>>
  /\ closing = FALSE
  /\ pending = NoError
  /\ written = 0
  /\ captured = 0
  /\ yielded = 0
  /\ delivered = 0
  /\ outcome = "none"
  /\ error = NoError
  /\ process = NoProcess
  /\ stdin_open = FALSE
  /\ pipe_stdin = 0
  /\ pipe_stdout = 0
  /\ pipe_stderr = 0
  /\ Launcher_Idle
  /\ StreamMaps_Idle
  /\ Hooks_Idle
  /\ Configuration_Idle
  /\ ArrowDec_Idle
  /\ Inference_Idle
  /\ Encoding_Idle
  /\ Decoding_Idle

\* ---- helpers of the host ------------------------------------------------
\* raise SlingError(...): the call ends with the exception e.
Raise(e) ==
  /\ outcome' = "raised"
  /\ error' = e
  /\ hpc' = "done"

\* The call ends without an exception; how names the way it ended.
Finish(how) ==
  /\ outcome' = how
  /\ error' = NoError
  /\ hpc' = "done"


\* A return-code test that lets status 1 pass as success.
Failed_AboveOne(returncode) == returncode > 1

\* `process.returncode != 0`
Failed(returncode) == returncode # 0

\* Sling._build_command(): the target and --stdout part of the argument
\* vector, in the order the code appends it.
_build_command(stdout_flag) ==
  <<"sling", "run">>
  \o (IF tgt_conn = None THEN <<>>
      ELSE IF tgt_conn = "file://"
        THEN <<"--tgt-conn", "LOCAL">>
             \o (IF ~tgt_object THEN <<"--tgt-object", tgt_conn>> ELSE <<>>)
        ELSE <<"--tgt-conn", tgt_conn>>)
  \o (IF tgt_object THEN <<"--tgt-object", "object">> ELSE <<>>)
  \o (IF stdout_flag THEN <<"--stdout">> ELSE <<>>)

\* subprocess.Popen(cmd, stdin=PIPE|DEVNULL, stdout=PIPE, stderr=PIPE): a
\* running child that will write at most out units to stdout and err units
\* to stderr.
Popen(out, err) ==
  [spawned |-> TRUE, alive |-> TRUE, returncode |-> -1, op |-> "idle",
   outLeft |-> out, errLeft |-> err, outWritten |-> 0, errWritten |-> 0,
   eof |-> FALSE]

\* ---- the child process --------------------------------------------------
\* The child is a sequential program: it picks its next blocking system
\* call (read of stdin, write to stdout, write to stderr) and stays in it
\* until the pipe lets it through.
Child_Next ==
  /\ process.alive
  /\ process.op = "idle"
  /\ \E op \in {"read", "wout", "werr"} :
       /\ op = "read" => ~process.eof
       /\ op = "wout" => process.outLeft > 0
       /\ op = "werr" => process.errLeft > 0
       /\ process' = [process EXCEPT !.op = op]
  /\ UNCHANGED <<outside_sling, config, host, pipes>>

\* read(0): takes a unit the host wrote, or sees end of file once the host
\* has closed its end (or stdin is DEVNULL) and the pipe is empty.
Child_ReadStdin ==
  /\ process.alive
  /\ process.op = "read"
  /\ \/ /\ pipe_stdin > 0
        /\ pipe_stdin' = pipe_stdin - 1
        /\ process' = [process EXCEPT !.op = "idle"]
     \/ /\ pipe_stdin = 0
        /\ ~stdin_open
        /\ pipe_stdin' = pipe_stdin
        /\ process' = [process EXCEPT !.op = "idle", !.eof = TRUE]
  /\ UNCHANGED <<outside_sling, config, host, stdin_open, pipe_stdout, pipe_stderr>>

\* write(1): blocks while the stdout pipe is full.
Child_WriteStdout ==
  /\ process.alive
  /\ process.op = "wout"
  /\ pipe_stdout < PipeCap
  /\ pipe_stdout' = pipe_stdout + 1
  /\ process' = [process EXCEPT !.op = "idle",
                                !.outLeft = @ - 1, !.outWritten = @ + 1]
  /\ UNCHANGED <<outside_sling, config, host, stdin_open, pipe_stdin, pipe_stderr>>

\* write(2): blocks while the stderr pipe is full.
Child_WriteStderr ==
  /\ process.alive
  /\ process.op = "werr"
  /\ pipe_stderr < PipeCap
  /\ pipe_stderr' = pipe_stderr + 1
  /\ process' = [process EXCEPT !.op = "idle",
                                !.errLeft = @ - 1, !.errWritten = @ + 1]
  /\ UNCHANGED <<outside_sling, config, host, stdin_open, pipe_stdin, pipe_stdout>>

\* exit(rc): a failure may come at any point between two system calls;
\* the child exits with status 0 only after it has written all it had.
Child_Exit ==
  /\ process.alive
  /\ process.op = "idle"
  /\ \E rc \in 0..MaxCode :
       /\ rc = 0 => (process.outLeft = 0 /\ process.errLeft = 0)
       /\ process' = [process EXCEPT !.alive = FALSE, !.returncode = rc]
  /\ UNCHANGED <<outside_sling, config, host, pipes>>

\* ---- Sling.run() --------------------------------------------------------

\* A target test that also accepts a file:// connection as the target, as
\* _build_command() does when it derives --tgt-object from tgt_conn.
RunHasTarget_OrFileConn == tgt_object \/ tgt_conn = "file://"

\* `if not self.tgt_object: raise SlingError("No target object specified")`
RunHasTarget == tgt_object

CallRun ==
  /\ hpc = "new"
  /\ method' = "run"
  /\ hpc' = "run"
  /\ UNCHANGED <<outside_sling, config, self_stdout, cmd, closing, pending, written, captured,
                 yielded, delivered, outcome, error, process, pipes>>

\* The target check, then cmd = self._build_command() and the environment.
Run_Enter ==
  /\ hpc = "run"
  /\ IF ~RunHasTarget
       THEN /\ Raise(SlingError("no_target_object"))
            /\ cmd' = cmd
       ELSE /\ cmd' = _build_command(self_stdout)
            /\ hpc' = "run_popen"
            /\ UNCHANGED <<outcome, error>>
  /\ UNCHANGED <<outside_sling, config, self_stdout, method, closing, pending, written,
                 captured, yielded, delivered, process, pipes>>

\* process = subprocess.Popen(...): stdin is a pipe only if input is given.
Run_Popen ==
  /\ hpc = "run_popen"
  /\ \E out \in 0..MaxOut, err \in 0..MaxErr : process' = Popen(out, err)
  /\ stdin_open' = (input # NoInput)
  /\ hpc' = IF input # NoInput THEN "run_write" ELSE "run_communicate"
  /\ UNCHANGED <<outside_sling, config, self_stdout, method, cmd, closing, pending, written,
                 captured, yielded, delivered, outcome, error,
                 pipe_stdin, pipe_stdout, pipe_stderr>>

\* Popen raises (the binary cannot be executed): wrapped by `except Exception`.
Run_PopenFails ==
  /\ hpc = "run_popen"
  /\ Raise(SlingError("exec_error"))
  /\ UNCHANGED <<outside_sling, config, self_stdout, method, cmd, closing, pending, written,
                 captured, yielded, delivered, process, pipes>>

\* self._write_input_data_sync(process.stdin, self.input), in the calling
\* thread: one stdin.write + flush; blocks while the stdin pipe is full.
Run_Write ==
  /\ hpc = "run_write"
  /\ written < input
  /\ process.alive
  /\ pipe_stdin < PipeCap
  /\ pipe_stdin' = pipe_stdin + 1
  /\ written' = written + 1
  /\ UNCHANGED <<outside_sling, config, self_stdout, method, hpc, cmd, closing, pending,
                 captured, yielded, delivered, outcome, error, process,
                 stdin_open, pipe_stdout, pipe_stderr>>

\* The write finds the read end closed (the child has exited):
\* BrokenPipeError, re-raised by the encoder and wrapped by run()'s
\* `except Exception` into SlingError(f"Error executing sling command: {e}").
Run_WriteBrokenPipe ==
  /\ hpc = "run_write"
  /\ written < input
  /\ ~process.alive
  /\ Raise(SlingError("exec_error"))
  /\ UNCHANGED <<outside_sling, config, self_stdout, method, cmd, closing, pending, written,
                 captured, yielded, delivered, process, pipes>>

\* The encoder has written everything; process.communicate() starts by
\* closing the child's stdin.
Run_WriteDone ==
  /\ hpc = "run_write"
  /\ written = input
  /\ hpc' = "run_communicate"
  /\ stdin_open' = FALSE
  /\ UNCHANGED <<outside_sling, config, self_stdout, method, cmd, closing, pending, written,
                 captured, yielded, delivered, outcome, error, process,
                 pipe_stdin, pipe_stdout, pipe_stderr>>

\* communicate() reads stdout and stderr together until both reach EOF.
Communicate_ReadStdout ==
  /\ hpc = "run_communicate"
  /\ pipe_stdout > 0
  /\ pipe_stdout' = pipe_stdout - 1
  /\ UNCHANGED <<outside_sling, config, host, process, stdin_open, pipe_stdin, pipe_stderr>>

Communicate_ReadStderr ==
  /\ hpc = "run_communicate"
  /\ pipe_stderr > 0
  /\ pipe_stderr' = pipe_stderr - 1
  /\ captured' = captured + 1
  /\ UNCHANGED <<outside_sling, config, self_stdout, method, hpc, cmd, closing, pending,
                 written, yielded, delivered, outcome, error, process,
                 stdin_open, pipe_stdin, pipe_stdout>>

\* Both pipes at EOF and the child reaped: the return code decides.
Communicate_Done ==
  /\ hpc = "run_communicate"
  /\ ~process.alive
  /\ pipe_stdout = 0
  /\ pipe_stderr = 0
  /\ IF Failed(process.returncode)
       THEN Raise(CommandFailed(process.returncode, captured))
       ELSE Finish("returned")
  /\ UNCHANGED <<outside_sling, config, self_stdout, method, cmd, closing, pending, written,
                 captured, yielded, delivered, process, pipes>>

\* ---- Sling._make_stream_process() ---------------------------------------
\* Sets self.stdout = True, builds the command, spawns the child with
\* stdout and stderr on pipes, and in its finally block puts self.stdout
\* back to what it was on entry (stream() and stream_arrow() have already
\* set it to True).
_make_stream_process ==
  /\ hpc = "make_stream_process"
  /\ cmd' = _build_command(TRUE)
  /\ \E out \in 0..MaxOut, err \in 0..MaxErr : process' = Popen(out, err)
  /\ stdin_open' = (input # NoInput)
  /\ self_stdout' = self_stdout
  /\ hpc' = IF method = "stream" THEN "stream_read" ELSE "arrow_open"
  /\ UNCHANGED <<outside_sling, config, method, closing, pending, written, captured, yielded,
                 delivered, outcome, error, pipe_stdin, pipe_stdout,
                 pipe_stderr>>

\* Popen raises: SlingError("Error executing sling streaming command: ...");
\* the callers' finally blocks are not entered yet, self.stdout stays True.
_make_stream_process_fails ==
  /\ hpc = "make_stream_process"
  /\ cmd' = _build_command(TRUE)
  /\ self_stdout' = self_stdout
  /\ Raise(SlingError("exec_error"))
  /\ UNCHANGED <<outside_sling, config, method, closing, pending, written, captured, yielded,
                 delivered, process, pipes>>

\* ---- Sling.stream() -----------------------------------------------------

\* stream() without its target-object branch.
StreamRunsNormally_Never == FALSE

\* `if self.tgt_object: self.run(); return iter([])`
StreamRunsNormally == tgt_object


\* An input test on truthiness (`if self.input:`): an empty list passes.
RejectsInput_Truthy == input # NoInput /\ input > 0

\* `if self.input is not None: raise SlingError("pointless to pass input ...")`
RejectsInput == input # NoInput

\* stream() is a generator function: the call only creates the generator.
CallStream ==
  /\ hpc = "new"
  /\ method' = "stream"
  /\ hpc' = "generator"
  /\ UNCHANGED <<outside_sling, config, self_stdout, cmd, closing, pending, written, captured,
                 yielded, delivered, outcome, error, process, pipes>>

\* The caller drops the generator without ever iterating it: no code of
\* stream() runs.
Stream_Discard ==
  /\ hpc = "generator"
  /\ closing' = TRUE
  /\ Finish("closed")
  /\ UNCHANGED <<outside_sling, config, self_stdout, method, cmd, pending, written, captured,
                 yielded, delivered, process, pipes>>

\* First next(): the body runs up to the spawn.  With a target object it
\* calls self.run(); input is rejected; otherwise self.stdout = True and
\* the process is made.  (The input-writing branch after the spawn is
\* unreachable: input is None there.)
Stream_Start ==
  /\ hpc = "generator"
  /\ IF StreamRunsNormally
       THEN /\ hpc' = "run"
            /\ UNCHANGED <<self_stdout, outcome, error>>
       ELSE IF RejectsInput
         THEN /\ Raise(SlingError("input_and_stream"))
              /\ UNCHANGED self_stdout
         ELSE /\ self_stdout' = TRUE
              /\ hpc' = "make_stream_process"
              /\ UNCHANGED <<outcome, error>>
  /\ UNCHANGED <<outside_sling, config, method, cmd, closing, pending, written, captured,
                 yielded, delivered, process, pipes>>

\* `yield from self._read_output_stream(process.stdout)`: a blocking read
\* of the stdout pipe decodes one record, which is yielded to the caller.
Stream_Read ==
  /\ hpc = "stream_read"
  /\ pipe_stdout > 0
  /\ pipe_stdout' = pipe_stdout - 1
  /\ yielded' = yielded + 1
  /\ hpc' = "stream_yield"
  /\ UNCHANGED <<outside_sling, config, self_stdout, method, cmd, closing, pending, written,
                 captured, delivered, outcome, error, process, stdin_open,
                 pipe_stdin, pipe_stderr>>

\* The caller asks for the next record.
Stream_Next ==
  /\ hpc = "stream_yield"
  /\ hpc' = "stream_read"
  /\ UNCHANGED <<outside_sling, config, self_stdout, method, cmd, closing, pending, written,
                 captured, yielded, delivered, outcome, error, process, pipes>>

\* The caller breaks out of the iteration: the generator is closed,
\* GeneratorExit is thrown at the yield and the finally block runs.
Stream_Break ==
  /\ hpc = "stream_yield"
  /\ closing' = TRUE
  /\ hpc' = "stream_wait"
  /\ UNCHANGED <<outside_sling, config, self_stdout, method, cmd, pending, written, captured,
                 yielded, delivered, outcome, error, process, pipes>>

\* The read sees end of file (pipe empty, child's end closed): the decoder
\* is exhausted and the finally block runs.
Stream_EOF ==
  /\ hpc = "stream_read"
  /\ pipe_stdout = 0
  /\ ~process.alive
  /\ hpc' = "stream_wait"
  /\ UNCHANGED <<outside_sling, config, self_stdout, method, cmd, closing, pending, written,
                 captured, yielded, delivered, outcome, error, process, pipes>>

\* finally: process.wait() (stdout and stderr are not read meanwhile), then
\* self.stdout is restored and a nonzero return code raises with
\* process.stderr.read(), which is what the stderr pipe holds.  On an early
\* break the SlingError leaves the generator through close() (a generator
\* finalized by the garbage collector has it reported and dropped).
Stream_Wait ==
  /\ hpc = "stream_wait"
  /\ ~process.alive
  /\ self_stdout' = FALSE
  /\ IF Failed(process.returncode)
       THEN /\ Raise(CommandFailed(process.returncode, pipe_stderr))
            /\ pipe_stderr' = 0
       ELSE /\ Finish(IF closing THEN "closed" ELSE "returned")
            /\ pipe_stderr' = pipe_stderr
  /\ UNCHANGED <<outside_sling, config, method, cmd, closing, pending, written, captured,
                 yielded, delivered, process, stdin_open, pipe_stdin,
                 pipe_stdout>>

\* ---- Sling.stream_arrow() -----------------------------------------------

\* The target test placed after the input test: with input set, the input
\* error wins.
RejectsTarget_AfterInput == tgt_object /\ input = NoInput

\* `if self.tgt_object: raise SlingError("stream_arrow() cannot be used ...")`
RejectsTarget == tgt_object

CallStreamArrow ==
  /\ hpc = "new"
  /\ method' = "stream_arrow"
  /\ hpc' = "stream_arrow"
  /\ UNCHANGED <<outside_sling, config, self_stdout, cmd, closing, pending, written, captured,
                 yielded, delivered, outcome, error, process, pipes>>

\* The three checks in the order of the code, then self.stdout = True.
StreamArrow_Enter ==
  /\ hpc = "stream_arrow"
  /\ IF ~HAS_ARROW
       THEN /\ Raise(SlingError("pyarrow_not_available"))
            /\ UNCHANGED self_stdout
       ELSE IF RejectsTarget
         THEN /\ Raise(SlingError("stream_arrow_with_target"))
              /\ UNCHANGED self_stdout
         ELSE IF RejectsInput
           THEN /\ Raise(SlingError("input_and_stream"))
                /\ UNCHANGED self_stdout
           ELSE /\ self_stdout' = TRUE
                /\ hpc' = "make_stream_process"
                /\ UNCHANGED <<outcome, error>>
  /\ UNCHANGED <<outside_sling, config, method, cmd, closing, pending, written, captured,
                 yielded, delivered, process, pipes>>

\* reader = self._read_output_stream_arrow(process.stdout): stdout.read(6)
\* and pa.ipc.open_stream block until the child has written the head of the
\* stream (its first unit: preamble and schema).
StreamArrow_Open ==
  /\ hpc = "arrow_open"
  /\ pipe_stdout > 0
  /\ pipe_stdout' = pipe_stdout - 1
  /\ hpc' = "arrow_wait"
  /\ UNCHANGED <<outside_sling, config, self_stdout, method, cmd, closing, pending, written,
                 captured, yielded, delivered, outcome, error, process,
                 stdin_open, pipe_stdin, pipe_stderr>>

\* The child closed stdout without writing anything: open_stream raises
\* ArrowInvalid, turned into SlingError; it is in flight while finally runs.
StreamArrow_OpenFails ==
  /\ hpc = "arrow_open"
  /\ pipe_stdout = 0
  /\ ~process.alive
  /\ pending' = SlingError("arrow_read_failed")
  /\ hpc' = "arrow_wait"
  /\ UNCHANGED <<outside_sling, config, self_stdout, method, cmd, closing, written, captured,
                 yielded, delivered, outcome, error, process, pipes>>

\* finally (entered by `return reader` as well): process.wait(), restore
\* self.stdout, raise on a nonzero return code; only then does the pending
\* return or exception take effect.
StreamArrow_Wait ==
  /\ hpc = "arrow_wait"
  /\ ~process.alive
  /\ self_stdout' = FALSE
  /\ IF Failed(process.returncode)
       THEN /\ Raise(CommandFailed(process.returncode, pipe_stderr))
            /\ pipe_stderr' = 0
       ELSE /\ pipe_stderr' = pipe_stderr
            /\ IF pending # NoError
                 THEN Raise(pending)
                 ELSE /\ outcome' = "returned"
                      /\ error' = NoError
                      /\ hpc' = "reader"
  /\ UNCHANGED <<outside_sling, config, method, cmd, closing, pending, written, captured,
                 yielded, delivered, process, stdin_open, pipe_stdin,
                 pipe_stdout>>

\* The caller reads a batch from the RecordBatchStreamReader it was given.
Reader_ReadBatch ==
  /\ hpc = "reader"
  /\ pipe_stdout > 0
  /\ pipe_stdout' = pipe_stdout - 1
  /\ delivered' = delivered + 1
  /\ UNCHANGED <<outside_sling, config, self_stdout, method, hpc, cmd, closing, pending,
                 written, captured, yielded, outcome, error, process,
                 stdin_open, pipe_stdin, pipe_stderr>>

Next ==
  \/ CallRun \/ Run_Enter \/ Run_Popen \/ Run_PopenFails
  \/ Run_Write \/ Run_WriteBrokenPipe \/ Run_WriteDone
  \/ Communicate_ReadStdout \/ Communicate_ReadStderr \/ Communicate_Done
  \/ _make_stream_process \/ _make_stream_process_fails
  \/ CallStream \/ Stream_Discard \/ Stream_Start \/ Stream_Read
  \/ Stream_Next \/ Stream_Break \/ Stream_EOF \/ Stream_Wait
  \/ CallStreamArrow \/ StreamArrow_Enter \/ StreamArrow_Open
  \/ StreamArrow_OpenFails \/ StreamArrow_Wait \/ Reader_ReadBatch
  \/ Child_Next \/ Child_ReadStdin \/ Child_WriteStdout \/ Child_WriteStderr
  \/ Child_Exit

Spec == Init /\ [][Next]_vars


\* ==== Replication, Pipeline, Task: run() and _run() =======================
\* One behaviour = one object of one of the three classes and up to MaxRuns
\* calls of its run().  A call is two steps: run() up to the spawning of the
\* child (the config file is written, the environment merged and handed to
\* Popen), then the end of _run() when the child has exited.

\* SLING_PACKAGE as _exec_cmd() sets it: 'python', or the orchestrator that
\* is_package() found (one stands for dagster, airflow, temporal, orkes).
Packages == {"python", "dagster"}

\* No Sling object exists and no call of it runs.
Sling_Idle ==
  /\ HAS_ARROW = FALSE
  /\ tgt_conn = None
  /\ tgt_object = FALSE
  /\ input = NoInput
  /\ self_stdout = FALSE
  /\ method = None
  /\ hpc = "new"
  /\ cmd = <<>>
  /\ closing = FALSE
  /\ pending = NoError
  /\ written = 0
  /\ captured = 0
  /\ yielded = 0
  /\ delivered = 0
  /\ outcome = "none"
  /\ error = NoError
  /\ process = NoProcess
  /\ stdin_open = FALSE
  /\ pipe_stdin = 0
  /\ pipe_stdout = 0
  /\ pipe_stderr = 0

InitRun ==
  /\ cls \in {"Replication", "Pipeline", "Task"}
  /\ file_path \in (IF cls = "Task" THEN {FALSE} ELSE BOOLEAN)
  /\ self_env \in Envs("caller")
  /\ os_environ \in Envs("host")
  /\ caller_env = <<>>
  /\ child_env = NoEnv
  /\ temp_file = NoFile
  /\ files = {}
  /\ config_env = <<>>
  /\ lpc = "idle"
  /\ run_outcome = "none"
  /\ runs = 0
  /\ Sling_Idle
  /\ StreamMaps_Idle
  /\ Hooks_Idle
  /\ Configuration_Idle
  /\ ArrowDec_Idle
  /\ Inference_Idle
  /\ Encoding_Idle
  /\ Decoding_Idle

\* A merge in which the host's value replaces the caller's.
MergeEnv_HostWins(env, environ) ==
  [k \in DOMAIN env \cup DOMAIN environ |->
     IF k \in DOMAIN environ THEN environ[k] ELSE env[k]]

\* `for k,v in os.environ.items(): env[k] = env.get(k, v)`
MergeEnv(env, environ) ==
  [k \in DOMAIN env \cup DOMAIN environ |->
     IF k \in DOMAIN env THEN env[k] ELSE environ[k]]

\* _exec_cmd() up to Popen: merges os.environ once more and then sets
\* env['SLING_PACKAGE'] itself, whatever the mapping held under that name.
_exec_cmd_env(env, pkg) ==
  [k \in DOMAIN env \cup DOMAIN os_environ \cup {"SLING_PACKAGE"} |->
     IF k = "SLING_PACKAGE" THEN pkg ELSE MergeEnv(env, os_environ)[k]]

\* _prep_cmd(): with self.file_path the command names the caller's file and
\* self.temp_file is left as it is; otherwise a fresh file
\* sling-<kind>-<uuid>.json is written with self.env as its "env" section.
_prep_cmd ==
  IF file_path
  THEN UNCHANGED <<temp_file, files, config_env>>
  ELSE /\ temp_file' = runs + 1
       /\ files' = files \cup {runs + 1}
       /\ config_env' = self_env

\* run() and the start of _run(): `env = env or self.env`, `env = env or {}`,
\* the merge of os.environ into that mapping, in place: when the mapping is
\* self.env itself (no env argument, self.env not empty) self.env is what
\* _run() and _exec_cmd() write to.  Then Popen starts the child.
run(c) ==
  /\ cls = c
  /\ lpc = "idle"
  /\ runs < MaxRuns
  /\ \E env \in Envs("arg"), pkg \in Packages :
       LET given == IF env # <<>> THEN env ELSE self_env
           handed == _exec_cmd_env(MergeEnv(given, os_environ), pkg)
       IN /\ caller_env' = given
          /\ child_env' = handed
          /\ self_env' = IF env = <<>> /\ self_env # <<>>
                         THEN handed ELSE self_env
  /\ _prep_cmd
  /\ lpc' = "exec"
  /\ runs' = runs + 1
  /\ run_outcome' = "none"
  /\ UNCHANGED <<outside_launcher, cls, file_path, os_environ>>

Replication_run == run("Replication")

Pipeline_run == run("Pipeline")

Task_run == run("Task")

\* A removal that leaves the file where it is.
os_remove_Nothing(path, fs) == fs

\* os.remove(path)
os_remove(path, fs) == fs \ {path}

\* _exec_cmd() is exhausted, the child exited with status 0:
\* `if temp_file: os.remove(temp_file)`, then the output is returned.
_run_returns ==
  /\ lpc = "exec"
  /\ files' = IF temp_file # NoFile THEN os_remove(temp_file, files) ELSE files
  /\ run_outcome' = "returned"
  /\ lpc' = "idle"
  /\ UNCHANGED <<outside_launcher, cls, file_path, self_env, os_environ, caller_env,
                 child_env, temp_file, config_env, runs>>

\* _exec_cmd() raised (nonzero exit status): the except clause prints the
\* path of the config file and re-raises; nothing is removed.
_run_raises ==
  /\ lpc = "exec"
  /\ run_outcome' = "raised"
  /\ lpc' = "idle"
  /\ UNCHANGED <<outside_launcher, cls, file_path, self_env, os_environ, caller_env,
                 child_env, temp_file, files, config_env, runs>>

NextRun ==
  \/ Replication_run \/ Pipeline_run \/ Task_run
  \/ _run_returns \/ _run_raises

SpecRun == InitRun /\ [][NextRun]_vars

\* ==== _infer_arrow_type(): the Arrow type of one field ====================
\* One behaviour = one call of _infer_arrow_type() on the non-null sample
\* values of a field.  A value is known by its Python class.
MaxSample == 3     \* most non-null sample values of the field

Classes == {"bool", "int", "float", "datetime", "date", "str"}

\* isinstance(v, c): bool is a subclass of int, datetime.datetime one of
\* datetime.date.
isinstance(v, c) ==
  \/ v = c
  \/ v = "bool" /\ c = "int"
  \/ v = "datetime" /\ c = "date"

\* all(P(v) for v in values)
all(values, P(_)) == \A i \in 1..Len(values) : P(values[i])

is_bool(v) == isinstance(v, "bool")

is_int(v) == isinstance(v, "int") /\ ~isinstance(v, "bool")

is_number(v) ==
  (isinstance(v, "int") \/ isinstance(v, "float")) /\ ~isinstance(v, "bool")

is_datetime(v) == isinstance(v, "datetime")

\* `isinstance(v, datetime.date)`
is_date(v) == isinstance(v, "date")

\* Sling._infer_arrow_type(values), the tests in the order of the code
_infer_arrow_type(values) ==
  IF values = <<>> THEN "string"
  ELSE IF all(values, is_bool) THEN "bool"
  ELSE IF all(values, is_int) THEN "int64"
  ELSE IF all(values, is_number) THEN "float64"
  ELSE IF all(values, is_datetime) THEN "timestamp[us]"
  ELSE IF all(values, is_date) THEN "date32"
  ELSE "string"

InitInfer ==
  /\ sample_values \in UNION {[1..n -> Classes] : n \in 0..MaxSample}
  /\ inferred = None
  /\ Sling_Idle
  /\ Launcher_Idle
  /\ StreamMaps_Idle
  /\ Hooks_Idle
  /\ Configuration_Idle
  /\ ArrowDec_Idle
  /\ Encoding_Idle
  /\ Decoding_Idle

Infer ==
  /\ inferred = None
  /\ inferred' = _infer_arrow_type(sample_values)
  /\ UNCHANGED <<outside_inference, sample_values>>

NextInfer == Infer

SpecInfer == InitInfer /\ [][NextInfer]_vars

\* ==== the input encoders: _write_input_data_arrow / _write_input_data_csv ==
\* One behaviour = one input (a list of dicts), one setting of self.select
\* and one run of one of the two encoders over it.  Text is a sequence of
\* characters; a value is known by its Python class and by str() of it.
MaxRecords == 3    \* most records of the input
SampleSize == 1    \* stands for the 100 of `records[:100]`
BatchSize  == 2    \* stands for batch_size = 10000

Fields == {"a", "b"}

\* the field names in lexicographic order ("c" is in no record)
FieldOrder == <<"a", "b", "c">>

Values == {[cls |-> "int", text |-> <<"1">>], [cls |-> "str", text |-> <<"x">>]}

NoneValue == [cls |-> "NoneType", text |-> <<"N", "o", "n", "e">>]

\* str() of an int that a string column can be cast back from
IntLiterals == {<<"1">>}

\* the dicts over Fields, as sequences of items in insertion order
Records ==
  {r \in UNION {[1..n -> [k : Fields, v : Values]] : n \in 0..Cardinality(Fields)} :
     \A i, j \in 1..Len(r) : r[i].k = r[j].k => i = j}

Selections == {<<>>, <<"b", "a">>, <<"c", "a">>, <<"c">>}

NoSchema == [none |-> TRUE]

\* list(record.keys())
keys(record) == [i \in 1..Len(record) |-> record[i].k]

\* `name in record`
has(record, name) == \E i \in 1..Len(record) : record[i].k = name

\* record.get(name, default)
get(record, name, default) ==
  IF has(record, name)
  THEN record[CHOOSE i \in 1..Len(record) : record[i].k = name].v
  ELSE default

\* `[col for col in cols if col in names]`
filter(cols, names) == SelectSeq(cols, LAMBDA col : col \in names)

Range(seq) == {seq[i] : i \in 1..Len(seq)}

\* An ordering that keeps the names as they were first seen.
sorted_AsSeen(names) == names

\* sorted(field_names); names lists the set in the order it happens to have
sorted(names) == filter(FieldOrder, Range(names))

\* the keys of the records in the order they are first seen
RECURSIVE KeysSeen(_)
KeysSeen(records) ==
  IF records = <<>> THEN <<>>
  ELSE LET before == KeysSeen(SubSeq(records, 1, Len(records) - 1))
           last == keys(records[Len(records)])
       IN before \o SelectSeq(last, LAMBDA k : k \notin Range(before))

\* records[:n]
Prefix(records, n) == SubSeq(records, 1, IF Len(records) < n THEN Len(records) ELSE n)

\* the non-None values of the field in the records, by class
SampleValues(records, name) ==
  LET with == SelectSeq(records, LAMBDA r :
                  has(r, name) /\ get(r, name, NoneValue) # NoneValue)
  IN [i \in 1..Len(with) |-> get(with[i], name, NoneValue).cls]

\* Sling._infer_arrow_schema(records)
_infer_arrow_schema(records) ==
  LET sample == Prefix(records, SampleSize)
      names == sorted(KeysSeen(sample))
  IN [fields |->
        [i \in 1..Len(names) |->
           [name |-> names[i],
            type |-> _infer_arrow_type(SampleValues(sample, names[i])),
            nullable |-> TRUE]]]

\* pa.array(column_data, type=type) accepts the value
Converts(value, type) ==
  \/ value = NoneValue
  \/ type = "bool" /\ value.cls = "bool"
  \/ type = "int64" /\ value.cls = "int"
  \/ type = "float64" /\ value.cls \in {"int", "float"}
  \/ type = "timestamp[us]" /\ value.cls = "datetime"
  \/ type = "date32" /\ value.cls \in {"date", "datetime"}

Null == <<"null">>

\* `[str(v) if v is not None else None for v in column_data]` as pa.string()
StringArray(column_data) ==
  [type |-> "string",
   values |-> [i \in 1..Len(column_data) |->
                 IF column_data[i] = NoneValue THEN Null ELSE column_data[i].text]]

\* The try/except of _records_to_arrow_batch for one column: the typed
\* array, or the string array when pa.array() raises.
ColumnArray(column_data, type) ==
  IF type # "string" /\ \A i \in 1..Len(column_data) : Converts(column_data[i], type)
  THEN [type |-> type,
        values |-> [i \in 1..Len(column_data) |->
                      IF column_data[i] = NoneValue THEN Null ELSE column_data[i].text]]
  ELSE StringArray(column_data)

\* array.cast(type) of pa.record_batch(arrays, schema=schema) succeeds: the
\* array has the type already, or is a string array of literals of the type.
Casts(array, type) ==
  \/ array.type = type
  \/ /\ array.type = "string" /\ type \in {"int64", "float64"}
     /\ \A i \in 1..Len(array.values) :
          array.values[i] = Null \/ array.values[i] \in IntLiterals

\* Sling._records_to_arrow_batch(records, schema): the batch, or the
\* ArrowInvalid that pa.record_batch() raises when a cast fails.
_records_to_arrow_batch(records, sch) ==
  LET arrays == [i \in 1..Len(sch.fields) |->
                   ColumnArray([j \in 1..Len(records) |->
                                  get(records[j], sch.fields[i].name, NoneValue)],
                               sch.fields[i].type)]
  IN IF \A i \in 1..Len(arrays) : Casts(arrays[i], sch.fields[i].type)
     THEN [ok |-> TRUE, rows |-> Len(records), schema |-> sch,
           columns |-> [i \in 1..Len(arrays) |->
                          [type |-> sch.fields[i].type, values |-> arrays[i].values]]]
     ELSE [ok |-> FALSE]

InitEnc ==
  /\ select \in Selections
  /\ input_data \in UNION {[1..n -> Records] : n \in 0..MaxRecords}
  /\ encoder = "none"
  /\ epc = "idle"
  /\ consumed = 0
  /\ schema = NoSchema
  /\ inferences = 0
  /\ all_batches = <<>>
  /\ headers = <<>>
  /\ headers_written = FALSE
  /\ sink = <<>>
  /\ flushed = 0
  /\ enc_error = None
  /\ Sling_Idle
  /\ Launcher_Idle
  /\ StreamMaps_Idle
  /\ Hooks_Idle
  /\ Configuration_Idle
  /\ ArrowDec_Idle
  /\ Inference_Idle
  /\ Decoding_Idle

\* ---- the columnar encoder -----------------------------------------------
\* _write_input_data_arrow() is entered; `records = list(input_data)`.
Arrow_Start ==
  /\ encoder = "none"
  /\ input_data # <<>>
  /\ encoder' = "arrow"
  /\ epc' = "convert"
  /\ UNCHANGED <<outside_encoding, select, input_data, consumed, schema,
                 inferences, all_batches, headers, headers_written, sink,
                 flushed, enc_error>>

\* An empty input: `return pa.table([])`, a table without columns, or the
\* ValueError of pyarrow versions that want names for a list of arrays.
Arrow_StartEmpty ==
  /\ encoder = "none"
  /\ input_data = <<>>
  /\ encoder' = "arrow"
  /\ \/ /\ epc' = "select"
        /\ schema' = [fields |-> <<>>]
        /\ UNCHANGED enc_error
     \/ /\ epc' = "raised"
        /\ enc_error' = "ValueError"
        /\ UNCHANGED schema
  /\ UNCHANGED <<outside_encoding, select, input_data, consumed, inferences,
                 all_batches, headers, headers_written, sink, flushed>>

\* A loop that infers the schema anew for every window.
SchemaIsMissing_Always(sch) == TRUE

\* `if schema is None`
SchemaIsMissing(sch) == sch = NoSchema

\* One turn of the loop of _convert_to_arrow_table(): the next window of
\* BatchSize records becomes a batch; the schema is inferred if there is
\* none yet.  An exception of the conversion leaves the encoder.
Arrow_ConvertWindow ==
  /\ encoder = "arrow" /\ epc = "convert"
  /\ LET upto == IF consumed + BatchSize < Len(input_data)
                 THEN consumed + BatchSize ELSE Len(input_data)
         batch_records == SubSeq(input_data, consumed + 1, upto)
         infer == SchemaIsMissing(schema)
         sch == IF infer THEN _infer_arrow_schema(batch_records) ELSE schema
         batch == _records_to_arrow_batch(batch_records, sch)
     IN /\ schema' = sch
        /\ inferences' = IF infer THEN inferences + 1 ELSE inferences
        /\ IF batch.ok
           THEN /\ all_batches' = Append(all_batches, batch)
                /\ consumed' = upto
                /\ epc' = IF upto = Len(input_data) THEN "select" ELSE "convert"
                /\ UNCHANGED enc_error
           ELSE /\ epc' = "raised"
                /\ enc_error' = "ArrowInvalid"
                /\ UNCHANGED <<all_batches, consumed>>
  /\ UNCHANGED <<outside_encoding, select, input_data, encoder, headers,
                 headers_written, sink, flushed>>

\* arrow_table.select(columns) on one batch
SelectColumns(batch, columns) ==
  LET at(name) == CHOOSE i \in 1..Len(batch.schema.fields) :
                    batch.schema.fields[i].name = name
  IN [batch EXCEPT
        !.schema = [fields |-> [i \in 1..Len(columns) |->
                                  batch.schema.fields[at(columns[i])]]],
        !.columns = [i \in 1..Len(columns) |-> batch.columns[at(columns[i])]]]

\* `if available_columns:`
AppliesSelection(available_columns) == available_columns # <<>>

\* The table is complete: the column selection is applied and
\* pa.ipc.new_stream(stdin, arrow_table.schema) writes the schema.
Arrow_Open ==
  /\ encoder = "arrow" /\ epc = "select"
  /\ LET column_names == {schema.fields[i].name : i \in 1..Len(schema.fields)}
         available_columns == filter(select, column_names)
         apply == select # <<>> /\ AppliesSelection(available_columns)
         table_schema == IF apply
                         THEN [fields |-> [i \in 1..Len(available_columns) |->
                                 schema.fields[CHOOSE j \in 1..Len(schema.fields) :
                                   schema.fields[j].name = available_columns[i]]]]
                         ELSE schema
     IN /\ all_batches' = IF apply
                          THEN [i \in 1..Len(all_batches) |->
                                  SelectColumns(all_batches[i], available_columns)]
                          ELSE all_batches
        /\ sink' = Append(sink, [kind |-> "schema", schema |-> table_schema])
  /\ epc' = "write"
  /\ consumed' = 0
  /\ UNCHANGED <<outside_encoding, select, input_data, encoder, schema,
                 inferences, headers, headers_written, flushed, enc_error>>

\* writer.write_batch(batch) for the next batch of the table; consumed
\* counts the batches written.
Arrow_WriteBatch ==
  /\ encoder = "arrow" /\ epc = "write"
  /\ consumed < Len(all_batches)
  /\ sink' = Append(sink, [kind |-> "batch", batch |-> all_batches[consumed + 1]])
  /\ consumed' = consumed + 1
  /\ UNCHANGED <<outside_encoding, select, input_data, encoder, epc, schema,
                 inferences, all_batches, headers, headers_written, flushed,
                 enc_error>>

\* writer.close(): the end-of-stream marker.
Arrow_Close ==
  /\ encoder = "arrow" /\ epc = "write"
  /\ consumed = Len(all_batches)
  /\ sink' = Append(sink, [kind |-> "eos"])
  /\ epc' = "done"
  /\ UNCHANGED <<outside_encoding, select, input_data, encoder, consumed,
                 schema, inferences, all_batches, headers, headers_written,
                 flushed, enc_error>>

\* ---- the row encoder ---------------------------------------------------
\* the cell holds a character that makes csv.writer quote it
NeedsQuote(cell) == \E i \in 1..Len(cell) : cell[i] \in {",", "\"", "\r", "\n"}

\* the cell between quotes, every quote of it doubled
RECURSIVE Doubled(_)
Doubled(cell) ==
  IF cell = <<>> THEN <<>>
  ELSE (IF Head(cell) = "\"" THEN <<"\"", "\"">> ELSE <<Head(cell)>>)
       \o Doubled(Tail(cell))

Quoted(cell) == <<"\"">> \o Doubled(cell) \o <<"\"">>

RECURSIVE Joined(_)
Joined(cells) ==
  IF cells = <<>> THEN <<>>
  ELSE (IF NeedsQuote(cells[1]) THEN Quoted(cells[1]) ELSE cells[1])
       \o (IF Len(cells) > 1 THEN <<",">> ELSE <<>>)
       \o Joined(Tail(cells))

\* csv.writer(buffer).writerow(cells); buffer.getvalue(): the excel dialect
\* (QUOTE_MINIMAL, lines end in \r\n, a lone empty cell is written as "").
writerow(cells) ==
  (IF cells = <<<<>>>> THEN <<"\"", "\"">> ELSE Joined(cells)) \o <<"\r", "\n">>

\* A header that is the record's own keys whatever the selection.
ComputeHeaders_OwnKeys(selected_columns, record) == keys(record)

\* `headers = [col for col in selected_columns if col in record]`, or
\* `list(record.keys())` without a selection
ComputeHeaders(selected_columns, record) ==
  IF selected_columns # <<>>
  THEN SelectSeq(selected_columns, LAMBDA col : has(record, col))
  ELSE keys(record)

\* `[str(record.get(h, '')) for h in headers]`
Row(record, hdr) ==
  [i \in 1..Len(hdr) |-> get(record, hdr[i], [cls |-> "str", text |-> <<>>]).text]

Line(cells) == [kind |-> "line", row |-> cells, text |-> writerow(cells)]

\* _write_input_data_csv() is entered.
Csv_Start ==
  /\ encoder = "none"
  /\ encoder' = "csv"
  /\ epc' = "rows"
  /\ UNCHANGED <<outside_encoding, select, input_data, consumed, schema,
                 inferences, all_batches, headers, headers_written, sink,
                 flushed, enc_error>>

\* One turn of `for record in record_iterator`: an empty record is only
\* counted; the first other one fixes the headers and writes the header
\* line; a row is written when the headers are not empty.  Every write is
\* followed by stdin.flush().
Csv_Record ==
  /\ encoder = "csv" /\ epc = "rows"
  /\ consumed < Len(input_data)
  /\ consumed' = consumed + 1
  /\ LET record == input_data[consumed + 1]
         hdr == IF headers_written THEN headers ELSE ComputeHeaders(select, record)
         head == IF headers_written THEN <<>> ELSE <<Line([i \in 1..Len(hdr) |-> <<hdr[i]>>])>>
         row == IF hdr # <<>> THEN <<Line(Row(record, hdr))>> ELSE <<>>
     IN IF record = <<>>
        THEN UNCHANGED <<headers, headers_written, sink, flushed>>
        ELSE /\ headers' = hdr
             /\ headers_written' = TRUE
             /\ sink' = sink \o head \o row
             /\ flushed' = Len(sink')
  /\ UNCHANGED <<outside_encoding, select, input_data, encoder, epc, schema,
                 inferences, all_batches, enc_error>>

\* The iterator is exhausted (for no record at all: stdin.write(b'')).
Csv_End ==
  /\ encoder = "csv" /\ epc = "rows"
  /\ consumed = Len(input_data)
  /\ epc' = "done"
  /\ UNCHANGED <<outside_encoding, select, input_data, encoder, consumed,
                 schema, inferences, all_batches, headers, headers_written,
                 sink, flushed, enc_error>>

NextEnc ==
  \/ Arrow_Start \/ Arrow_StartEmpty \/ Arrow_ConvertWindow \/ Arrow_Open
  \/ Arrow_WriteBatch \/ Arrow_Close
  \/ Csv_Start \/ Csv_Record \/ Csv_End

SpecEnc == InitEnc /\ [][NextEnc]_vars

\* ==== the row decoder: _read_output_stream_csv ============================
\* One behaviour = one byte stream on the child's stdout and one run of the
\* generator over it.  A byte is a character; Invalid is a byte that is not
\* valid UTF-8.
MaxLines == 3      \* most lines of the child's output

Invalid == "0xFF"

Whitespace == {" ", "\r", "\n"}

\* the lines a child may write, without their line feed: a header or row of
\* two cells, a short and a long row, a blank line, a quoted cell with a
\* comma, a bare carriage return inside a row, and a byte that is not UTF-8
OutputLines ==
  {<<"a", ",", "b">>, <<"1">>, <<"1", ",", "2", ",", "3">>, <<>>,
   <<"\"", "1", ",", "2", "\"", ",", "3">>, <<"x", "\r", "y">>, <<Invalid>>}

RECURSIVE Concat(_)
Concat(seqs) == IF seqs = <<>> THEN <<>> ELSE Head(seqs) \o Concat(Tail(seqs))

\* the streams of up to MaxLines lines, each ended by a line feed
Streams ==
  {Concat([i \in 1..Len(ls) |-> ls[i] \o <<"\n">>]) :
     ls \in UNION {[1..n -> OutputLines] : n \in 0..MaxLines}}

\* the length of what stdout.readline() returns: up to the first line feed
LineLen(bytes) ==
  IF \E i \in 1..Len(bytes) : bytes[i] = "\n"
  THEN CHOOSE i \in 1..Len(bytes) :
         bytes[i] = "\n" /\ \A j \in 1..(i - 1) : bytes[j] # "\n"
  ELSE Len(bytes)

\* line.decode('utf-8') does not raise
Decodable(line) == \A i \in 1..Len(line) : line[i] # Invalid

\* str.strip()
RECURSIVE strip(_)
strip(text) ==
  IF text = <<>> THEN <<>>
  ELSE IF Head(text) \in Whitespace THEN strip(Tail(text))
  ELSE IF text[Len(text)] \in Whitespace THEN strip(SubSeq(text, 1, Len(text) - 1))
  ELSE text

\* The parser of csv.reader (excel dialect, not strict) on the characters of
\* one line: state st, the field being collected and the fields saved.  At
\* the end of the line the pending field is saved, also an open quoted one.
RECURSIVE Parse(_, _, _, _)
Parse(rest, st, field, fields) ==
  IF rest = <<>>
  THEN [ok |-> TRUE,
        fields |-> IF st = "EAT_CRNL" THEN fields ELSE Append(fields, field)]
  ELSE LET c == Head(rest)
           more == Tail(rest)
       IN CASE st = "START_FIELD" ->
                 IF c \in {"\n", "\r"}
                 THEN Parse(more, "EAT_CRNL", <<>>, Append(fields, <<>>))
                 ELSE IF c = "\"" THEN Parse(more, "IN_QUOTED_FIELD", <<>>, fields)
                 ELSE IF c = "," THEN Parse(more, "START_FIELD", <<>>, Append(fields, <<>>))
                 ELSE Parse(more, "IN_FIELD", <<c>>, fields)
            [] st = "IN_FIELD" ->
                 IF c \in {"\n", "\r"}
                 THEN Parse(more, "EAT_CRNL", <<>>, Append(fields, field))
                 ELSE IF c = "," THEN Parse(more, "START_FIELD", <<>>, Append(fields, field))
                 ELSE Parse(more, "IN_FIELD", Append(field, c), fields)
            [] st = "IN_QUOTED_FIELD" ->
                 IF c = "\"" THEN Parse(more, "QUOTE_IN_QUOTED_FIELD", field, fields)
                 ELSE Parse(more, "IN_QUOTED_FIELD", Append(field, c), fields)
            [] st = "QUOTE_IN_QUOTED_FIELD" ->
                 IF c = "\"" THEN Parse(more, "IN_QUOTED_FIELD", Append(field, c), fields)
                 ELSE IF c = "," THEN Parse(more, "START_FIELD", <<>>, Append(fields, field))
                 ELSE IF c \in {"\n", "\r"}
                 THEN Parse(more, "EAT_CRNL", <<>>, Append(fields, field))
                 ELSE Parse(more, "IN_FIELD", Append(field, c), fields)
            [] st = "EAT_CRNL" ->
                 IF c \in {"\n", "\r"} THEN Parse(more, "EAT_CRNL", <<>>, fields)
                 ELSE [ok |-> FALSE]

\* list(csv.reader([line_str]))[0] for a line that is not empty; ok is FALSE
\* when the reader raises csv.Error
csv_reader(line_str) == Parse(line_str, "START_FIELD", <<>>, <<>>)

\* the padding with '' and the truncation to len(headers)
Fit(values, n) ==
  [i \in 1..n |-> IF i <= Len(values) THEN values[i] ELSE <<>>]

\* dict(zip(headers, values)): the keys in the order they first occur, each
\* with the value of its last occurrence
dict_zip(hdr, values) ==
  LET firsts == SelectSeq([i \in 1..Len(hdr) |-> i],
                          LAMBDA i : \A j \in 1..(i - 1) : hdr[j] # hdr[i])
      last(i) == CHOOSE j \in 1..Len(hdr) :
                   hdr[j] = hdr[i] /\ \A l \in (j + 1)..Len(hdr) : hdr[l] # hdr[i]
  IN [m \in 1..Len(firsts) |-> [k |-> hdr[firsts[m]], v |-> values[last(firsts[m])]]]

InitDec ==
  /\ child_output \in Streams
  /\ stdout_bytes = child_output
  /\ dpc = "header"
  /\ dec_headers = <<>>
  /\ records_out = <<>>
  /\ dec_outcome = "none"
  /\ Sling_Idle
  /\ Launcher_Idle
  /\ StreamMaps_Idle
  /\ Hooks_Idle
  /\ Configuration_Idle
  /\ ArrowDec_Idle
  /\ Inference_Idle
  /\ Encoding_Idle

\* The generator is started: stdout.readline() gives the header line.  No
\* line, a blank line, an undecodable or an untokenizable one end the
\* generator without a record (the last two through the outer except).
Dec_Header ==
  /\ dpc = "header"
  /\ LET n == LineLen(stdout_bytes)
         first_line == SubSeq(stdout_bytes, 1, n)
         parsed == csv_reader(strip(first_line))
     IN /\ stdout_bytes' = SubSeq(stdout_bytes, n + 1, Len(stdout_bytes))
        /\ IF first_line = <<>> \/ (Decodable(first_line) /\ strip(first_line) = <<>>)
           THEN dpc' = "done" /\ dec_outcome' = "exhausted" /\ UNCHANGED dec_headers
           ELSE IF ~Decodable(first_line) \/ ~parsed.ok
           THEN dpc' = "done" /\ dec_outcome' = "stopped" /\ UNCHANGED dec_headers
           ELSE dpc' = "lines" /\ dec_headers' = parsed.fields /\ UNCHANGED dec_outcome
  /\ UNCHANGED <<outside_decoding, child_output, records_out>>

\* One turn of `for line in stdout`: line.decode() is outside the inner try,
\* so a line that is not UTF-8 ends the generator through the outer except;
\* a blank line is passed over; a line csv.reader rejects is skipped by the
\* inner except; any other line yields a record.
Dec_Line ==
  /\ dpc = "lines"
  /\ stdout_bytes # <<>>
  /\ LET n == LineLen(stdout_bytes)
         line == SubSeq(stdout_bytes, 1, n)
         line_str == strip(line)
         parsed == csv_reader(line_str)
     IN /\ stdout_bytes' = SubSeq(stdout_bytes, n + 1, Len(stdout_bytes))
        /\ IF ~Decodable(line)
           THEN dpc' = "done" /\ dec_outcome' = "stopped" /\ UNCHANGED records_out
           ELSE /\ UNCHANGED <<dpc, dec_outcome>>
                /\ records_out' =
                     IF line_str # <<>> /\ parsed.ok
                     THEN Append(records_out,
                                 dict_zip(dec_headers,
                                          Fit(parsed.fields, Len(dec_headers))))
                     ELSE records_out
  /\ UNCHANGED <<outside_decoding, child_output, dec_headers>>

\* stdout is at its end: the generator returns.
Dec_End ==
  /\ dpc = "lines"
  /\ stdout_bytes = <<>>
  /\ dpc' = "done"
  /\ dec_outcome' = "exhausted"
  /\ UNCHANGED <<outside_decoding, child_output, stdout_bytes, dec_headers,
                 records_out>>

NextDec == Dec_Header \/ Dec_Line \/ Dec_End

SpecDec == InitDec /\ [][NextDec]_vars

\* ==== the row path end to end =============================================
\* One behaviour = one homogeneous input of string and integer values that
\* the row encoder writes, and the row decoder reading those very bytes.
MaxRows == 2       \* most records of the round trip

\* an integer, the empty string, and the strings of a comma, a quote, a
\* space and a line break
ScalarValues ==
  {[cls |-> "int", text |-> <<"1">>], [cls |-> "str", text |-> <<>>]}
  \cup {[cls |-> "str", text |-> <<c>>] : c \in {",", "\"", " ", "\n"}}

\* the records with the fields a and b
UniformRecords ==
  {<<[k |-> "a", v |-> x], [k |-> "b", v |-> y]>> : x, y \in ScalarValues}

InitRoundTrip ==
  /\ select = <<>>
  /\ input_data \in UNION {[1..n -> UniformRecords] : n \in 0..MaxRows}
  /\ encoder = "none"
  /\ epc = "idle"
  /\ consumed = 0
  /\ schema = NoSchema
  /\ inferences = 0
  /\ all_batches = <<>>
  /\ headers = <<>>
  /\ headers_written = FALSE
  /\ sink = <<>>
  /\ flushed = 0
  /\ enc_error = None
  /\ Decoding_Idle
  /\ Sling_Idle
  /\ Launcher_Idle
  /\ StreamMaps_Idle
  /\ Hooks_Idle
  /\ Configuration_Idle
  /\ ArrowDec_Idle
  /\ Inference_Idle

\* The bytes the encoder wrote are what the decoder reads.
Echo ==
  /\ encoder = "csv" /\ epc = "done"
  /\ dpc = "idle"
  /\ child_output' = Concat([i \in 1..Len(sink) |-> sink[i].text])
  /\ stdout_bytes' = child_output'
  /\ dpc' = "header"
  /\ UNCHANGED <<outside_decoding, dec_headers, records_out, dec_outcome>>

NextRoundTrip ==
  \/ Csv_Start \/ Csv_Record \/ Csv_End
  \/ Echo
  \/ Dec_Header \/ Dec_Line \/ Dec_End

SpecRoundTrip == InitRoundTrip /\ [][NextRoundTrip]_vars

\* ==== the columnar decoder: _read_output_stream and its Arrow readers ======
\* One behaviour = one byte source standing for the child's stdout and one
\* run of _read_output_stream() over it.  A message of the Arrow stream is a
\* chunk of three bytes; a batch holds RowsPerBatch rows, and a record is
\* known by the batch and the row it comes from.
MaxChunks == 3     \* most chunks the child writes after the preamble
RowsPerBatch == 2  \* rows of every batch

\* b'ARROW1' and the two bytes of padding that follow it
Magic == <<"A", "R", "R", "O", "W", "1">>

Padding == <<"0", "0">>

SchemaMessage == <<"S", "c", "h">>

BatchMessage == <<"B", "a", "t">>

\* what the child may write: the two messages, a cut-off message, and two
\* lines of text
Chunks == {SchemaMessage, BatchMessage, <<"B">>, <<"a", "\n", "1", "\n">>}

ArrowStreams ==
  {pre \o Concat(cs) :
     pre \in {<<>>, Magic \o Padding},
     cs \in UNION {[1..n -> Chunks] : n \in 0..MaxChunks}}

\* the variables the decoders leave alone
outside_decoders == <<sling, launcher, inference, encoding, configuration, hooks, stream_maps>>

\* stdout.read(n)
ReadBytes(bytes, n) == SubSeq(bytes, 1, IF Len(bytes) < n THEN Len(bytes) ELSE n)

\* what is left after stdout.read(n)
SkipBytes(bytes, n) == SubSeq(bytes, n + 1, Len(bytes))

\* hasattr(stdout, 'seek'): files and pipe readers both have the method
hasattr_seek(kind) == kind \in {"file", "pipe"}

\* stdout.seek(0) succeeds; on a pipe it raises io.UnsupportedOperation
Seekable(kind) == kind = "file"

\* the message at the head of the bytes as the IPC reader takes it
MessageAt(bytes) ==
  IF bytes = <<>> THEN "eof"
  ELSE IF ReadBytes(bytes, 3) = SchemaMessage THEN "schema"
  ELSE IF ReadBytes(bytes, 3) = BatchMessage THEN "batch"
  ELSE "invalid"

InitArrowDec ==
  /\ child_output \in ArrowStreams
  /\ stdout_bytes = child_output
  /\ dpc = "idle"
  /\ dec_headers = <<>>
  /\ records_out = <<>>
  /\ dec_outcome = "none"
  /\ src_kind \in {"file", "pipe", "object"}
  /\ use_arrow \in BOOLEAN
  /\ apc = "start"
  /\ reader_input = NoBytes
  /\ batches_read = 0
  /\ dec_error = None
  /\ Sling_Idle
  /\ Launcher_Idle
  /\ StreamMaps_Idle
  /\ Hooks_Idle
  /\ Configuration_Idle
  /\ Inference_Idle
  /\ Encoding_Idle

\* Sling._read_output_stream(): the columnar decoder if pyarrow is there and
\* not switched off, the row decoder otherwise.
_read_output_stream ==
  /\ apc = "start"
  /\ IF use_arrow
     THEN apc' = "open" /\ UNCHANGED dpc
     ELSE apc' = "csv" /\ dpc' = "header"
  /\ UNCHANGED <<outside_decoders, child_output, stdout_bytes, dec_headers,
                 records_out, dec_outcome, src_kind, use_arrow, reader_input,
                 batches_read, dec_error>>

\* A handler that hands the stream to the row decoder.
Fatal_FallBackToCsv ==
  /\ dec_error' = None
  /\ apc' = "csv"
  /\ dpc' = "header"
  /\ dec_outcome' = "none"

\* `raise SlingError(...)` of the except clauses: the decoder ends.
Fatal ==
  /\ dec_error' = "SlingError"
  /\ apc' = "done"
  /\ dec_outcome' = "raised"
  /\ UNCHANGED dpc

\* Sling._read_output_stream_arrow(): read 6 bytes; after the magic skip the
\* padding; otherwise seek(0) if stdout has a seek attribute, else read the
\* rest and replay first_bytes + remaining.  Then pa.ipc.open_stream() reads
\* the schema message.  Whatever is raised on the way becomes a SlingError.
ArrowDec_Open ==
  /\ apc = "open"
  /\ LET first_bytes == ReadBytes(stdout_bytes, 6)
         seeks == first_bytes # Magic /\ hasattr_seek(src_kind)
         source == IF first_bytes = Magic THEN SkipBytes(stdout_bytes, 8)
                   ELSE stdout_bytes
     IN IF seeks /\ ~Seekable(src_kind)
        THEN /\ Fatal
             /\ stdout_bytes' = SkipBytes(stdout_bytes, 6)
             /\ UNCHANGED reader_input
        ELSE /\ reader_input' = [bytes |-> source]
             /\ IF MessageAt(source) = "schema"
                THEN /\ apc' = "batches"
                     /\ stdout_bytes' = SkipBytes(source, 3)
                     /\ UNCHANGED <<dpc, dec_error, dec_outcome>>
                ELSE /\ Fatal
                     /\ stdout_bytes' = source
  /\ UNCHANGED <<outside_decoders, child_output, dec_headers, records_out,
                 src_kind, use_arrow, batches_read>>

\* Rows taken from the last to the first.
RowsOf_Backwards(batch) ==
  [i \in 1..RowsPerBatch |-> [batch |-> batch, row |-> RowsPerBatch + 1 - i]]

\* `for row_idx in range(table.num_rows)`: the records of one batch
RowsOf(batch) == [i \in 1..RowsPerBatch |-> [batch |-> batch, row |-> i]]

\* One turn of `for batch in reader` in _read_output_stream_arrow_to_dicts:
\* the rows of the next batch are yielded in order; a message that is no
\* batch makes the reader raise ArrowInvalid, which becomes a SlingError.
ArrowDec_Batch ==
  /\ apc = "batches"
  /\ stdout_bytes # <<>>
  /\ IF MessageAt(stdout_bytes) = "batch"
     THEN /\ records_out' = records_out \o RowsOf(batches_read + 1)
          /\ batches_read' = batches_read + 1
          /\ stdout_bytes' = SkipBytes(stdout_bytes, 3)
          /\ UNCHANGED <<apc, dpc, dec_error, dec_outcome>>
     ELSE /\ Fatal
          /\ UNCHANGED <<records_out, batches_read, stdout_bytes>>
  /\ UNCHANGED <<outside_decoders, child_output, dec_headers, src_kind,
                 use_arrow, reader_input>>

\* The reader is at the end of the stream: the generator returns.
ArrowDec_End ==
  /\ apc = "batches"
  /\ stdout_bytes = <<>>
  /\ apc' = "done"
  /\ dec_outcome' = "exhausted"
  /\ UNCHANGED <<outside_decoders, child_output, stdout_bytes, dpc,
                 dec_headers, records_out, src_kind, use_arrow, reader_input,
                 batches_read, dec_error>>

NextArrowDec ==
  \/ _read_output_stream
  \/ ArrowDec_Open \/ ArrowDec_Batch \/ ArrowDec_End
  \/ Dec_Header \/ Dec_Line \/ Dec_End

SpecArrowDec == InitArrowDec /\ [][NextArrowDec]_vars

\* ==== the encoders and the decoders side by side ==========================
\* One behaviour = one run of an encoder over an input, all columns
\* selected, or one run of a decoder over the child's output.
InitOrder == (InitEnc /\ select = <<>>) \/ InitDec \/ InitArrowDec

NextOrder == NextEnc \/ NextDec \/ NextArrowDec

SpecOrder == InitOrder /\ [][NextOrder]_vars

\* ==== the configuration of a Sling instance over its calls ===============
\* One behaviour = one Sling instance with its options and the calls of
\* run(), stream() and stream_arrow() made on it, one after the other.  Of
\* the command line only what depends on the options is kept: the formats of
\* --src-options and --tgt-options and the --stdout flag.
MaxCalls == 2      \* most calls made on the instance

Formats == {"None", "csv", "arrow"}

\* None, {} or {'format': f}, SourceOptions/TargetOptions(format=f)
Options ==
  {NoOptions} \cup {[kind |-> k, format |-> f] : k \in {"dict", "object"}, f \in Formats}

\* the variables of the Sling model the calls leave alone
outside_options ==
  <<launcher, inference, encoding, decoding, arrow_decoding, hooks, stream_maps,
    HAS_ARROW, tgt_conn, tgt_object, input, method, hpc, cmd, closing, pending,
    written, captured, yielded, delivered, outcome, error, process, pipes>>

\* Sling._should_use_arrow()
_should_use_arrow == HAS_ARROW /\ toggle

\* `if self.tgt_options:` - None and {} are false, an options object is true
Truthy(options) ==
  options.kind = "object" \/ (options.kind = "dict" /\ options.format # "None")

\* Sling._should_use_arrow_for_input()
_should_use_arrow_for_input ==
  \/ ~tgt_object
  \/ Truthy(tgt_options) /\ tgt_options.format = "arrow"

\* the three branches that set format = Format.ARROW on the options
SetArrow(options) ==
  [kind |-> IF options.kind = "None" THEN "object" ELSE options.kind,
   format |-> "arrow"]

\* the condition of _build_command and of _write_input_data_sync
InputIsArrow ==
  HAS_ARROW /\ _should_use_arrow /\ _should_use_arrow_for_input

\* self.src_options after _build_command(): with input data and Arrow for
\* the input, the format is set to Arrow on the instance
BuiltSrcOptions ==
  IF input # NoInput /\ InputIsArrow THEN SetArrow(src_options) ELSE src_options

\* the format the command line carries for the options, "absent" without
\* the argument
Emitted(options) == IF Truthy(options) THEN options.format ELSE "absent"

\* Sling._build_command() for the instance as it is
CommandOf(src, tgt, stdout_flag) ==
  [src |-> Emitted(src), tgt |-> Emitted(tgt), stdout |-> stdout_flag]

InitConfig ==
  /\ HAS_ARROW \in BOOLEAN
  /\ tgt_conn = None
  /\ tgt_object \in BOOLEAN
  /\ input \in {NoInput, 0, 1}
  /\ self_stdout = FALSE
  /\ method = None
  /\ hpc = "new"
  /\ cmd = <<>>
  /\ closing = FALSE
  /\ pending = NoError
  /\ written = 0
  /\ captured = 0
  /\ yielded = 0
  /\ delivered = 0
  /\ outcome = "none"
  /\ error = NoError
  /\ process = NoProcess
  /\ stdin_open = FALSE
  /\ pipe_stdin = 0
  /\ pipe_stdout = 0
  /\ pipe_stderr = 0
  /\ toggle \in BOOLEAN
  /\ src_options \in Options
  /\ tgt_options \in Options
  /\ cpc = "idle"
  /\ entry = None
  /\ original_stdout = FALSE
  /\ cmd_before = NoCommand
  /\ told = NoTold
  /\ declared = "absent"
  /\ wire = "none"
  /\ decoder = "none"
  /\ exit = "none"
  /\ calls = 0
  /\ Launcher_Idle
  /\ StreamMaps_Idle
  /\ Hooks_Idle
  /\ Inference_Idle
  /\ Encoding_Idle
  /\ Decoding_Idle
  /\ ArrowDec_Idle

\* A call begins: what _build_command() would give now is noted.
Begins(name) ==
  /\ cpc = "idle"
  /\ calls < MaxCalls
  /\ calls' = calls + 1
  /\ entry' = name
  /\ cmd_before' = CommandOf(BuiltSrcOptions, tgt_options, self_stdout)

\* The call ends before anything is built or started.
Refused ==
  /\ exit' = "raised"
  /\ told' = NoTold
  /\ declared' = "absent"
  /\ wire' = "none"
  /\ decoder' = "none"
  /\ UNCHANGED <<cpc, src_options, tgt_options, self_stdout, original_stdout>>

\* The body of Sling.run() with a target object: the command is built, the
\* child started, the input written with the encoder of
\* _write_input_data_sync, the child waited for.
RunBody ==
  /\ src_options' = BuiltSrcOptions
  /\ declared' = Emitted(BuiltSrcOptions)
  /\ told' = [cmd_tgt |-> Emitted(tgt_options), env |-> _should_use_arrow]
  /\ decoder' = "none"
  /\ \/ /\ exit' = "spawn_failed"
        /\ wire' = "none"
     \/ /\ exit' \in {"returned", "child_failed"}
        /\ wire' = IF input = NoInput THEN "none"
                   ELSE IF InputIsArrow THEN "arrow" ELSE "csv"
  /\ UNCHANGED <<cpc, tgt_options, self_stdout, original_stdout>>

\* Sling.run()
Config_run ==
  /\ Begins("run")
  /\ IF ~tgt_object THEN Refused ELSE RunBody
  /\ UNCHANGED <<outside_options, toggle>>

\* `original_stdout = self.stdout; self.stdout = True`, then
\* Sling._make_stream_process(): with Arrow in use the target format is set
\* to Arrow on the instance, the command is built and the child started; its
\* `finally` puts self.stdout back to what it found itself, which is True.
StreamBody(columnar) ==
  /\ tgt_options' = IF _should_use_arrow THEN SetArrow(tgt_options) ELSE tgt_options
  /\ told' = [cmd_tgt |-> Emitted(tgt_options'), env |-> _should_use_arrow]
  /\ declared' = Emitted(src_options)
  /\ wire' = "none"
  /\ self_stdout' = TRUE
  /\ original_stdout' = self_stdout
  /\ \/ /\ exit' = "spawn_failed"
        /\ decoder' = "none"
        /\ UNCHANGED cpc
     \/ /\ exit' = "none"
        /\ decoder' = IF columnar THEN "arrow" ELSE "csv"
        /\ cpc' = "reading"
  /\ UNCHANGED src_options

\* Sling.stream() up to its first record: with a target object it is run();
\* with input data it raises; otherwise self.stdout is set, the child made
\* and _read_output_stream picks the decoder.
Config_stream ==
  /\ Begins("stream")
  /\ IF tgt_object THEN RunBody
     ELSE IF input # NoInput THEN Refused
     ELSE StreamBody(HAS_ARROW /\ _should_use_arrow)
  /\ UNCHANGED <<outside_options, toggle>>

\* Sling.stream_arrow() up to the reader: without pyarrow, with a target
\* object or with input data it raises; otherwise self.stdout is set, the
\* child made and _read_output_stream_arrow applied to its stdout.
Config_stream_arrow ==
  /\ Begins("stream_arrow")
  /\ IF ~HAS_ARROW \/ tgt_object \/ input # NoInput THEN Refused
     ELSE StreamBody(TRUE)
  /\ UNCHANGED <<outside_options, toggle>>

\* The inner `finally` of stream() and stream_arrow(): process.wait(),
\* self.stdout = original_stdout, SlingError for a return code that is not 0.
Config_finally ==
  /\ cpc = "reading"
  /\ cpc' = "idle"
  /\ self_stdout' = original_stdout
  /\ exit' \in {"exhausted", "child_failed"}
  /\ UNCHANGED <<outside_options, toggle, src_options, tgt_options, entry,
                 original_stdout, cmd_before, told, declared, wire, decoder,
                 calls>>

NextConfig ==
  \/ Config_run \/ Config_stream \/ Config_stream_arrow \/ Config_finally

SpecConfig == InitConfig /\ [][NextConfig]_vars

\* ==== hooks.py: the serialization of hooks and steps ======================
\* One behaviour = one hook of one type, constructed with some of its
\* arguments None, and one call of its to_dict().  A mapping is a function
\* from its keys; a value that is not None is "v", or "empty" for the
\* containers the constructors put in place of None.
HookTypes ==
  {"query", "http", "check", "read", "write", "copy", "delete", "log",
   "inspect", "list", "replication", "command", "group", "store"}

\* the attributes Hook.__init__ sets
BaseAttributes == {"id", "if_condition", "on_failure"}

\* the attributes the constructor of the type sets to its argument as it is
Assigned(type) ==
  CASE type = "query" -> {"connection", "query", "transient", "into"}
    [] type = "http" -> {"url", "method", "payload"}
    [] type = "check" -> {"check", "failure_message"}
    [] type = "read" -> {"from_", "into"}
    [] type = "write" -> {"to", "content"}
    [] type = "copy" -> {"from_", "to", "recursive"}
    [] type = "delete" -> {"location", "connection", "path", "recursive"}
    [] type = "log" -> {"message", "level"}
    [] type = "inspect" -> {"location", "connection", "path", "recursive"}
    [] type = "list" -> {"location", "connection", "path", "recursive", "only"}
    [] type = "replication" -> {"path", "working_dir", "range_param", "mode"}
    [] type = "command" -> {"print_output", "capture", "working_dir"}
    [] type = "group" -> {"loop"}
    [] type = "store" -> {"key", "value", "delete"}

\* the attributes set to `argument or {}` / `argument or []`: never None
Defaulted(type) ==
  CASE type = "http" -> {"headers"}
    [] type = "check" -> {"vars"}
    [] type = "replication" -> {"streams", "env"}
    [] type = "command" -> {"command", "env"}
    [] type = "group" -> {"steps", "env"}
    [] OTHER -> {}

\* self.__dict__ after the constructor, for every choice of None arguments
Constructed(type) ==
  {[k \in BaseAttributes \cup Assigned(type) \cup Defaulted(type) |->
      IF k \in Defaulted(type) THEN "empty" ELSE given[k]] :
     given \in [BaseAttributes \cup Assigned(type) -> {None, "v"}]}

\* Hook.to_dict(): "type", and every attribute that is not None under its
\* name, if_condition under "if"
Hook_to_dict(type, attrs) ==
  LET dict_key(key) == IF key = "if_condition" THEN "if" ELSE key
      kept == {key \in DOMAIN attrs : attrs[key] # None}
      from(k) == CHOOSE key \in kept : dict_key(key) = k
  IN [k \in {"type"} \cup {dict_key(key) : key \in kept} |->
        IF k = "type" /\ "type" \notin kept THEN type ELSE attrs[from(k)]]

\* result[new] = value; del result[old]: KeyError when old is no key
Renamed(result, old, new, value) ==
  IF old \in DOMAIN result
  THEN [ok |-> TRUE,
        result |-> [k \in (DOMAIN result \cup {new}) \ {old} |->
                      IF k = new THEN value ELSE result[k]]]
  ELSE [ok |-> FALSE, result |-> result]

\* to_dict() of the type: HookRead and HookCopy move from_ to "from"
\* whenever the attribute exists, HookReplication and HookCommand move
\* range_param and print_output when they are not None; HookGroup converts
\* its steps, which are taken as already converted here.
to_dict(type, attrs) ==
  LET result == Hook_to_dict(type, attrs)
  IN IF type \in {"read", "copy"}
     THEN Renamed(result, "from_", "from", attrs["from_"])
     ELSE IF type = "replication" /\ attrs["range_param"] # None
     THEN Renamed(result, "range_param", "range", attrs["range_param"])
     ELSE IF type = "command" /\ attrs["print_output"] # None
     THEN Renamed(result, "print_output", "print", attrs["print_output"])
     ELSE [ok |-> TRUE, result |-> result]

InitHooks ==
  /\ hook_type \in HookTypes
  /\ hook_attrs \in Constructed(hook_type)
  /\ hkpc = "new"
  /\ hook_result = EmptyDict
  /\ hook_error = None
  /\ Sling_Idle
  /\ Launcher_Idle
  /\ StreamMaps_Idle
  /\ Inference_Idle
  /\ Encoding_Idle
  /\ Decoding_Idle
  /\ ArrowDec_Idle
  /\ Configuration_Idle

\* hook.to_dict() is called.
Hook_Serialize ==
  /\ hkpc = "new"
  /\ hkpc' = "done"
  /\ LET out == to_dict(hook_type, hook_attrs)
     IN IF out.ok
        THEN hook_result' = out.result /\ UNCHANGED hook_error
        ELSE hook_error' = "KeyError" /\ UNCHANGED hook_result
  /\ UNCHANGED <<outside_hooks, hook_type, hook_attrs>>

NextHooks == Hook_Serialize

SpecHooks == InitHooks /\ [][NextHooks]_vars

\* ==== Replication.__init__ and add_streams: the stream maps ================
\* One behaviour = the Replication objects one program makes and the
\* add_streams() calls on them.  A dict is known by its place in dicts; the
\* first is the default value of the streams parameter.
MaxInstances == 3  \* most Replication objects made

StreamNames == {"s1", "s2"}

\* the dict evaluated once for `streams: ... = {}` in the signature
DefaultDict == 1

\* Replication(): `self.streams = streams` with the parameter's default.
Replication_init_Default ==
  /\ Len(replications) < MaxInstances
  /\ replications' = Append(replications, [streams |-> DefaultDict, given |-> {}])
  /\ UNCHANGED <<outside_stream_maps, dicts>>

\* Replication(streams=d) with a dict d of the caller made for this call.
Replication_init(d) ==
  /\ Len(replications) < MaxInstances
  /\ dicts' = Append(dicts, d)
  /\ replications' = Append(replications, [streams |-> Len(dicts) + 1, given |-> d])
  /\ UNCHANGED outside_stream_maps

\* add_streams(streams) on the i-th instance: self.streams.update(streams)
add_streams(i, names) ==
  /\ dicts' = [dicts EXCEPT ![replications[i].streams] = @ \cup names]
  /\ replications' = [replications EXCEPT ![i].given = @ \cup names]
  /\ dicts' # dicts
  /\ UNCHANGED outside_stream_maps

InitStreams ==
  /\ StreamMaps_Idle
  /\ Sling_Idle
  /\ Launcher_Idle
  /\ Inference_Idle
  /\ Encoding_Idle
  /\ Decoding_Idle
  /\ ArrowDec_Idle
  /\ Configuration_Idle
  /\ Hooks_Idle

NextStreams ==
  \/ Replication_init_Default
  \/ \E d \in SUBSET StreamNames : Replication_init(d)
  \/ \E i \in 1..Len(replications), names \in SUBSET StreamNames :
       add_streams(i, names)

SpecStreams == InitStreams /\ [][NextStreams]_vars

\* ==== properties ==========================================================
UsageKinds ==
  {"no_target_object", "input_and_stream", "stream_arrow_with_target",
   "pyarrow_not_available"}

\* The call has ended and it was more than an unused generator.
Ended == hpc = "done" /\ ~(closing /\ cmd = <<>> /\ outcome = "closed")

\* The child never writes to stderr.
QuietChild == process.errWritten = 0 /\ process.errLeft = 0

\* C1: whenever run() or stream() has ended and the child it spawned exited
\* with a nonzero status, the call raised an error that carries that status
\* and all the text the child wrote to stderr.
C1_FailureCarriesCodeAndStderr ==
  (/\ method \in {"run", "stream"}
   /\ hpc = "done"
   /\ process.spawned /\ ~process.alive /\ process.returncode # 0)
  => (/\ outcome = "raised"
      /\ error.code = process.returncode
      /\ error.stderr = process.errWritten)

\* C2: run() with input data is never stuck: as long as the call has neither
\* returned nor raised, some step of the host or of the child can be taken.
C2_RunWithInputNeverStuck ==
  (method = "run" /\ input # NoInput /\ outcome = "none") => ENABLED Next

\* C3: once the caller has abandoned the output of stream(), the cleanup's
\* wait for the child is never stuck (for a child that writes to stdout only).
C3_AbandonedStreamIsReaped ==
  (method = "stream" /\ closing /\ outcome = "none" /\ QuietChild)
  => ENABLED Next

\* C4: while stream() reads the child's stdout it is never stuck: either the
\* host or the child can take a step.
C4_StreamReadNeverStuck ==
  (method = "stream" /\ hpc = "stream_read") => ENABLED Next

\* C5: stream_arrow() on a valid invocation is never stuck before it has
\* handed the reader over (for a child that writes to stdout only).
C5_StreamArrowNeverStuck ==
  (method = "stream_arrow" /\ process.spawned /\ outcome = "none" /\ QuietChild)
  => ENABLED Next

C7_StreamArrowWithTargetRaises ==
  (method = "stream_arrow" /\ tgt_object /\ hpc # "stream_arrow")
  => (/\ outcome = "raised"
      /\ error.kind = IF HAS_ARROW THEN "stream_arrow_with_target"
                                   ELSE "pyarrow_not_available"
      /\ cmd = <<>>
      /\ ~process.spawned)

C7_Witness ==
  /\ method = "stream_arrow" /\ tgt_object /\ input # NoInput /\ HAS_ARROW
  /\ outcome = "raised" /\ error.kind = "stream_arrow_with_target"

\* C8: stream() and stream_arrow() on an instance with input data and no
\* target object never build a command or spawn a child, and end with the
\* SlingError of the usage check.
C8_InputAndStreamRejected ==
  (method \in {"stream", "stream_arrow"} /\ input # NoInput /\ ~tgt_object)
  => (/\ ~process.spawned
      /\ cmd = <<>>
      /\ hpc \in {"generator", "stream_arrow", "done"}
      /\ Ended =>
           (/\ outcome = "raised"
            /\ error.kind = IF method = "stream_arrow" /\ ~HAS_ARROW
                              THEN "pyarrow_not_available"
                              ELSE "input_and_stream"))

C8_Witness ==
  /\ method = "stream" /\ input # NoInput /\ ~tgt_object
  /\ outcome = "raised" /\ error.kind = "input_and_stream"

\* C9: run() on an instance with no target object raises SlingError with no
\* command built and no child spawned, whatever tgt_conn and input are.
C9_RunWithoutTargetRaises ==
  (method = "run" /\ ~tgt_object /\ hpc # "run")
  => (/\ outcome = "raised"
      /\ error.kind = "no_target_object"
      /\ cmd = <<>>
      /\ ~process.spawned)

C9_Witness ==
  /\ method = "run" /\ ~tgt_object /\ tgt_conn = "file://"
  /\ outcome = "raised"

\* C10: run() and stream() end without raising only if the spawned child
\* exited with status 0; if the child exited with a nonzero status, run()
\* and a fully consumed stream() end by raising, also after records were
\* yielded.
C10_FailedChildNeverSuccess ==
  /\ (method \in {"run", "stream"} /\ outcome = "returned")
     => (process.spawned /\ ~process.alive /\ process.returncode = 0)
  /\ (/\ method \in {"run", "stream"} /\ hpc = "done" /\ ~closing
      /\ process.spawned /\ ~process.alive /\ process.returncode # 0)
     => outcome = "raised"

C10_Witness ==
  /\ method = "stream" /\ ~closing /\ yielded > 0
  /\ process.returncode # 0 /\ outcome = "raised"


\* ==== properties of Replication / Pipeline / Task ==========================
\* A run() has ended on an object that generates its config file.
RunEndedGenerated == lpc = "idle" /\ runs > 0 /\ ~file_path

\* C11: after Replication.run, Pipeline.run or Task.run with a generated
\* config file, the temp file of that call no longer exists if the command
\* completed successfully, and still exists if the command raised an error.
C11_TempFileRemovedOnSuccessKeptOnError ==
  RunEndedGenerated
  => /\ run_outcome = "returned" => temp_file \notin files
     /\ run_outcome = "raised" => temp_file \in files

\* A first run failed and left its file, a second one succeeded and removed
\* its own.
C11_Witness ==
  /\ RunEndedGenerated
  /\ runs = 2 /\ run_outcome = "returned"
  /\ temp_file = 2 /\ files = {1}

\* C12 (as stated): the environment handed to the child contains every
\* caller-supplied variable with the caller's value and every host variable
\* the caller did not supply.
C12_ChildEnvIsCallerOverHost ==
  child_env # NoEnv
  => /\ \A k \in DOMAIN caller_env :
          k \in DOMAIN child_env /\ child_env[k] = caller_env[k]
     /\ \A k \in DOMAIN os_environ \ DOMAIN caller_env :
          k \in DOMAIN child_env /\ child_env[k] = os_environ[k]

\* C12 (amended): the same for every name other than SLING_PACKAGE, which the
\* child always receives with the value _exec_cmd() sets.
C12_ChildEnvIsCallerOverHostButPackage ==
  child_env # NoEnv
  => /\ \A k \in DOMAIN caller_env \ {"SLING_PACKAGE"} :
          k \in DOMAIN child_env /\ child_env[k] = caller_env[k]
     /\ \A k \in DOMAIN os_environ \ (DOMAIN caller_env \cup {"SLING_PACKAGE"}) :
          k \in DOMAIN child_env /\ child_env[k] = os_environ[k]
     /\ "SLING_PACKAGE" \in DOMAIN child_env
     /\ child_env["SLING_PACKAGE"] \in Packages

\* The caller and the host both set A, only the host sets B, and the caller
\* also supplied SLING_PACKAGE.
C12_Witness ==
  /\ child_env # NoEnv
  /\ DOMAIN caller_env = {"A", "SLING_PACKAGE"}
  /\ DOMAIN os_environ = {"A", "B"}
  /\ child_env["A"] = caller_env["A"]
  /\ child_env["B"] = "host"


\* ==== properties of the type inference =====================================
\* The sample is not empty and holds values of the classes in S only.
SampleWithin(S) ==
  /\ sample_values # <<>>
  /\ {sample_values[i] : i \in 1..Len(sample_values)} \subseteq S

\* C14: the type inferred for a field is bool if all non-null sample values
\* are booleans, int64 if all are integers, float64 if all are integers or
\* floats, timestamp(us) if all are datetimes, date32 if all are date-only
\* values, and string otherwise: also for a mix of date-only and date-time
\* values and for a field without any non-null sample value.
C14_InferredTypeFollowsSample ==
  inferred # None
  => inferred =
       (IF SampleWithin({"bool"}) THEN "bool"
        ELSE IF SampleWithin({"int"}) THEN "int64"
        ELSE IF SampleWithin({"int", "float"}) THEN "float64"
        ELSE IF SampleWithin({"datetime"}) THEN "timestamp[us]"
        ELSE IF SampleWithin({"date"}) THEN "date32"
        ELSE "string")


\* ==== properties of the input encoders =====================================
\* the keys of all the records
KeysOf(records) == UNION {Range(keys(records[i])) : i \in 1..Len(records)}

\* the records that are not empty, in order
NonEmpty(records) == SelectSeq(records, LAMBDA r : r # <<>>)

\* The fields the encoder has written: the names of the schema message, or
\* the cells of the header line.
WrittenFields ==
  IF sink = <<>> THEN {}
  ELSE IF encoder = "arrow"
       THEN {sink[1].schema.fields[i].name : i \in 1..Len(sink[1].schema.fields)}
       ELSE {sink[1].row[i][1] : i \in 1..Len(sink[1].row)}

\* The fields the encoder takes the data to have: those of the inferred
\* schema, or the keys of the first record that is not empty.
PresentFields ==
  IF encoder = "arrow"
  THEN {schema.fields[i].name : i \in 1..Len(schema.fields)}
  ELSE IF NonEmpty(input_data) = <<>> THEN {}
       ELSE Range(keys(NonEmpty(input_data)[1]))

\* C13: with a column selection, on the columnar and on the row encoder the
\* set of fields written is exactly the selection intersected with the
\* fields present in the data, also when none of the listed fields exists.
C13_WrittenFieldsAreSelectionAndPresent ==
  (select # <<>> /\ epc = "done")
  => WrittenFields = Range(select) \cap PresentFields

\* the place of a field name in the lexicographic order
Rank(name) == CHOOSE i \in 1..Len(FieldOrder) : FieldOrder[i] = name

\* the record with its items in the opposite insertion order
Reversed(record) == [i \in 1..Len(record) |-> record[Len(record) + 1 - i]]

BatchesWritten == SelectSeq(sink, LAMBDA m : m.kind = "batch")

\* the record behind row j of the k-th batch
RecordOf(k, j) == input_data[(k - 1) * BatchSize + j]

\* C16: every batch carries the schema inferred from the first window, which
\* is computed once; a record that lacks a field of it is encoded with null.
C16_AllBatchesCarryTheFirstSchema ==
  (encoder = "arrow" /\ schema # NoSchema /\ input_data # <<>>)
  => /\ inferences = 1
     /\ schema = _infer_arrow_schema(Prefix(input_data, BatchSize))
     /\ epc \in {"convert", "select"}
          => \A k \in 1..Len(all_batches) : all_batches[k].schema = schema
     /\ \A k \in 1..Len(BatchesWritten) :
          LET b == BatchesWritten[k].batch
          IN /\ b.schema = sink[1].schema
             /\ \A i \in 1..Len(b.schema.fields), j \in 1..b.rows :
                  ~has(RecordOf(k, j), b.schema.fields[i].name)
                  => b.columns[i].values[j] = Null

\* Two batches are written and a record of the second window lacks a field of
\* the schema and has one the schema lacks.
C16_Witness ==
  /\ encoder = "arrow" /\ epc = "done"
  /\ Len(BatchesWritten) = 2
  /\ Len(schema.fields) = 1
  /\ \E j \in 1..BatchesWritten[2].batch.rows :
       /\ ~has(RecordOf(2, j), schema.fields[1].name)
       /\ RecordOf(2, j) # <<>>

\* the k-th window holds a value the type of field i does not accept
Unconvertible(k, i) ==
  LET upto == IF k * BatchSize < Len(input_data) THEN k * BatchSize
              ELSE Len(input_data)
  IN /\ schema.fields[i].type # "string"
     /\ \E j \in ((k - 1) * BatchSize + 1)..upto :
          ~Converts(get(input_data[j], schema.fields[i].name, NoneValue),
                    schema.fields[i].type)

ExpectedHeader(first) ==
  IF select # <<>> THEN filter(select, Range(keys(first))) ELSE keys(first)

\* C18: the row encoder writes the header once, computed from the first
\* record that is not empty (the selected fields that record has, else its
\* keys in their own order), before any row; every row after it has one cell
\* per header field, the stringified value or the empty string for a field
\* the record lacks; every line is flushed as it is written.
C18_HeaderOnceThenOneCellPerHeaderField ==
  encoder = "csv"
  => LET seen == NonEmpty(SubSeq(input_data, 1, consumed))
     IN /\ flushed = Len(sink)
        /\ seen = <<>> => sink = <<>>
        /\ seen # <<>> =>
             LET hdr == ExpectedHeader(seen[1])
             IN /\ sink[1].row = [i \in 1..Len(hdr) |-> <<hdr[i]>>]
                /\ Len(sink) = IF hdr = <<>> THEN 1 ELSE 1 + Len(seen)
                /\ \A n \in 2..Len(sink) :
                     /\ Len(sink[n].row) = Len(hdr)
                     /\ \A i \in 1..Len(hdr) :
                          sink[n].row[i] =
                            IF has(seen[n - 1], hdr[i])
                            THEN get(seen[n - 1], hdr[i], NoneValue).text
                            ELSE <<>>

\* With a selection: an empty record came first, the header has two fields
\* and a later record lacks one of them.
C18_Witness ==
  /\ encoder = "csv" /\ epc = "done"
  /\ select # <<>>
  /\ input_data # <<>> /\ input_data[1] = <<>>
  /\ Len(headers) = 2
  /\ Len(sink) = 3
  /\ \E i \in 1..2 : sink[3].row[i] = <<>>


\* ==== properties of the row decoder ========================================
\* the lines of a byte stream, each with its line feed
RECURSIVE SplitLines(_)
SplitLines(bytes) ==
  IF bytes = <<>> THEN <<>>
  ELSE <<SubSeq(bytes, 1, LineLen(bytes))>>
       \o SplitLines(SubSeq(bytes, LineLen(bytes) + 1, Len(bytes)))

\* The line is not blank and can be decoded and tokenized.
Tokenizes(line) ==
  Decodable(line) /\ strip(line) # <<>> /\ csv_reader(strip(line)).ok

\* C19: the first line gives the header; every later line that is not blank
\* yields one record whose keys are the header fields in order, with the
\* line's values by position, '' where the line is short and nothing of what
\* is beyond the header; a line that cannot be parsed is skipped and the
\* lines after it are still decoded.
C19_EveryParsableLineYieldsItsRecord ==
  (dpc = "done" /\ child_output # <<>> /\ Tokenizes(SplitLines(child_output)[1]))
  => LET ls == SplitLines(child_output)
         hdr == csv_reader(strip(ls[1])).fields
         body == SelectSeq(Tail(ls), Tokenizes)
     IN /\ Len(records_out) = Len(body)
        /\ \A n \in 1..Len(body) :
             LET f == csv_reader(strip(body[n])).fields
                 r == records_out[n]
             IN /\ Len(r) = Len(hdr)
                /\ \A i \in 1..Len(hdr) :
                     /\ r[i].k = hdr[i]
                     /\ r[i].v = IF i <= Len(f) THEN f[i] ELSE <<>>

\* C20: what the row encoder writes for a homogeneous input of scalars, read
\* by the row decoder, is as many records in the same order, each equal to
\* the input record with every value stringified.
C20_RowRoundTripGivesStringifiedInput ==
  (encoder = "csv" /\ dpc = "done")
  => /\ Len(records_out) = Len(input_data)
     /\ \A n \in 1..Len(input_data) :
          records_out[n] =
            [i \in 1..Len(input_data[n]) |->
               [k |-> <<input_data[n][i].k>>, v |-> input_data[n][i].v.text]]


\* ==== properties of the columnar decoder (SpecArrowDec) ====================
\* the columnar decoder has gone past its look at the first bytes
Peeked == use_arrow /\ apc \in {"batches", "done"}

\* C21: once the columnar decoder has looked at the first 6 bytes, the IPC
\* reader is given the bytes after the 8-byte preamble if those 6 bytes are
\* the magic sequence, and exactly the original bytes otherwise, whether the
\* source can be rewound or not; the look itself raises nothing.
C21_PreambleSkippedOrBytesReplayed ==
  Peeked =>
    IF ReadBytes(child_output, 6) = Magic
    THEN reader_input = [bytes |-> SkipBytes(child_output, 8)]
    ELSE reader_input = [bytes |-> child_output]

\* a stream is well formed from here on: batches up to the end
RECURSIVE BatchesOnly(_)
BatchesOnly(bytes) ==
  \/ bytes = <<>>
  \/ MessageAt(bytes) = "batch" /\ BatchesOnly(SkipBytes(bytes, 3))

\* a structurally valid columnar stream: a schema message, then batches
ValidArrow(bytes) ==
  MessageAt(bytes) = "schema" /\ BatchesOnly(SkipBytes(bytes, 3))

\* what the child wrote without the preamble, if it wrote one
Payload ==
  IF ReadBytes(child_output, 6) = Magic THEN SkipBytes(child_output, 8)
  ELSE child_output

\* C22: when the columnar decoder is the one applied and the stream is not a
\* valid columnar stream, the decoder ends with a SlingError raised to the
\* caller; the row decoder is never started on that stream and nothing it
\* parsed is yielded: every record yielded is a row of a batch.
C22_InvalidArrowIsFatalNeverRowDecoded ==
  use_arrow =>
    /\ dpc = "idle"
    /\ dec_headers = <<>>
    /\ \A k \in 1..Len(records_out) :
         records_out[k].batch \in 1..batches_read
    /\ (apc = "done" /\ ~ValidArrow(Payload)) =>
         (dec_error = "SlingError" /\ dec_outcome = "raised")

\* an invalid message after a batch that was read and yielded
C22_Witness ==
  /\ use_arrow
  /\ apc = "done"
  /\ ~ValidArrow(Payload)
  /\ MessageAt(Payload) = "schema"
  /\ batches_read = 1
  /\ Len(records_out) = RowsPerBatch
  /\ dec_error = "SlingError"


\* ==== record order (SpecOrder) ============================================
\* the row encoder has written the rows of the records it took, in order
CsvWritesInOrder ==
  (encoder = "csv" /\ headers_written) =>
    LET taken == SelectSeq(SubSeq(input_data, 1, consumed), LAMBDA r : r # <<>>)
    IN IF headers = <<>> THEN Len(sink) = 1
       ELSE Tail(sink) = [n \in 1..Len(taken) |-> Line(Row(taken[n], headers))]

\* row j of the k-th batch written holds the values of the record at place
\* j of the k-th window of the input
ArrowWritesInOrder ==
  encoder = "arrow" =>
    \A k \in 1..Len(BatchesWritten) :
      LET b == BatchesWritten[k].batch
      IN /\ b.rows = (IF k * BatchSize <= Len(input_data) THEN BatchSize
                      ELSE Len(input_data) - (k - 1) * BatchSize)
         /\ \A i \in 1..Len(b.schema.fields), j \in 1..b.rows :
              LET v == get(RecordOf(k, j), b.schema.fields[i].name, NoneValue)
              IN b.columns[i].values[j] = IF v = NoneValue THEN Null ELSE v.text

\* the n-th record of the row decoder is the n-th data line after the header
CsvYieldsInOrder ==
  (dpc \in {"lines", "done"} /\ records_out # <<>>) =>
    LET body == SelectSeq(Tail(SplitLines(child_output)), Tokenizes)
    IN /\ Len(records_out) <= Len(body)
       /\ \A n \in 1..Len(records_out) :
            records_out[n] =
              dict_zip(dec_headers,
                       Fit(csv_reader(strip(body[n])).fields, Len(dec_headers)))

\* the k-th record of the columnar decoder is the k-th row of the batches
\* read, one after the other
ArrowYieldsInOrder ==
  use_arrow =>
    /\ Len(records_out) = batches_read * RowsPerBatch
    /\ \A k \in 1..Len(records_out) :
         /\ records_out[k].batch = ((k - 1) \div RowsPerBatch) + 1
         /\ records_out[k].row = ((k - 1) % RowsPerBatch) + 1

\* C23: record order is preserved: the encoders write the records in input
\* order, within and across batches, and the decoders yield the records in
\* the order the child emitted them: the k-th record yielded is the k-th row
\* of the concatenated batches, respectively the k-th data line.
C23_RecordOrderIsPreserved ==
  /\ CsvWritesInOrder
  /\ ArrowWritesInOrder
  /\ CsvYieldsInOrder
  /\ ArrowYieldsInOrder

\* the columnar decoder has yielded the rows of two batches
C23_Witness ==
  /\ use_arrow
  /\ apc = "done"
  /\ dec_outcome = "exhausted"
  /\ batches_read = 2
  /\ Len(records_out) = 2 * RowsPerBatch
  /\ records_out[1] # records_out[2]


\* ==== streaming of the columnar encoder (SpecEnc) ==========================
\* C24: for an input of more than one window, the columnar encoder has
\* written and flushed the first batch before it has taken a record beyond
\* the first window from the input.
C24_FirstBatchWrittenBeforeSecondWindowIsTaken ==
  (/\ encoder = "arrow"
   /\ Len(input_data) > BatchSize
   /\ epc \in {"convert", "select"}
   /\ consumed > BatchSize)
  => /\ Len(BatchesWritten) >= 1
     /\ flushed >= 2


\* ==== properties of the configuration (SpecConfig) =========================
\* the child was told to emit the columnar format
ToldArrow == told.cmd_tgt = "arrow" /\ told.env

\* C25: for stream() and stream_arrow() and every setting of SLING_USE_ARROW,
\* the decoder applied to the child's stdout is the columnar one if and only
\* if the child was told to emit the columnar format (target format Arrow on
\* the command line and SLING_STREAM_FORMAT=arrow in its environment).
C25_DecoderMatchesWhatTheChildWasTold ==
  (entry \in {"stream", "stream_arrow"} /\ decoder # "none")
  => (decoder = "arrow" <=> ToldArrow)

\* C28: when stream() has ended - output exhausted, child failed, or the
\* child could not be started - _build_command() gives what it gave before
\* the call: no --stdout flag and no changed option is left behind.
C28_StreamLeavesTheCommandAsFound ==
  (/\ entry = "stream"
   /\ cpc = "idle"
   /\ exit \in {"exhausted", "child_failed", "spawn_failed"})
  => CommandOf(BuiltSrcOptions, tgt_options, self_stdout) = cmd_before

\* C30: when run() has written input data to stdin, the source format
\* declared in --src-options is Arrow if and only if the columnar encoder
\* wrote the data.
C30_DeclaredSourceFormatMatchesTheEncoder ==
  (entry = "run" /\ wire # "none") => (declared = "arrow" <=> wire = "arrow")


\* ==== properties of the hooks (SpecHooks) ==================================
\* the name an attribute has on the wire
WireName(key) ==
  CASE key = "if_condition" -> "if"
    [] key = "from_" -> "from"
    [] key = "print_output" -> "print"
    [] key = "range_param" -> "range"
    [] OTHER -> key

ReservedNames == {"if_condition", "from_", "print_output", "range_param"}

\* C26: for every hook type and every choice of None arguments, to_dict()
\* succeeds; the mapping has the key "type", has no key for an attribute
\* that is None, has every other attribute under its wire name, and has no
\* key that is the Python name of a reserved-word attribute.
C26_HookSerializesUnderWireNames ==
  hkpc = "done" =>
    /\ hook_error = None
    /\ "type" \in DOMAIN hook_result
    /\ hook_result["type"] = hook_type
    /\ \A key \in DOMAIN hook_attrs :
         IF hook_attrs[key] = None
         THEN WireName(key) \notin DOMAIN hook_result
         ELSE /\ WireName(key) \in DOMAIN hook_result
              /\ hook_result[WireName(key)] = hook_attrs[key]
    /\ DOMAIN hook_result \cap ReservedNames = {}


\* ==== properties of the stream maps (SpecStreams) ==========================
\* C27: the stream map of every Replication holds exactly the streams given
\* to that instance, at construction or through its own add_streams(): an
\* instance made without a streams argument starts empty, and no stream
\* added to one instance shows in another.
C27_StreamMapHoldsOnlyWhatTheInstanceWasGiven ==
  \A i \in 1..Len(replications) :
    dicts[replications[i].streams] = replications[i].given


\* ==== the object's own env over its runs (SpecRun) =========================
\* C29: no step of Replication.run, Pipeline.run or Task.run changes the
\* object's own env mapping, and a run after the first writes a config file
\* with the env section the file of the run before had.
C29_RunsLeaveTheObjectsEnvAlone ==
  [][/\ self_env' = self_env
     /\ (runs >= 1 /\ runs' = runs + 1 /\ ~file_path) => config_env' = config_env]_vars

====
